---- MODULE Spec2Model ----
(***************************************************************************)
(* Model of the YouTube botnet detector: the clustering ensemble and the   *)
(* scoring fusion (src/detection/clustering.py), the configuration check   *)
(* (src/config/config.py), the per-author temporal, behavioural and text   *)
(* scores (src/features/*.py) and the merge of synchronized-posting groups *)
(* (src/features/temporal_features.py).                                    *)
(*                                                                         *)
(* Numbers the code holds as floats are exact rationals <<n, d>> here,     *)
(* d > 0, in lowest terms.  1/(1 + cv), whose cv is a square root, is kept *)
(* symbolically (see InvOnePlusSqrt below).                                *)
(***************************************************************************)
EXTENDS Integers, Sequences, FiniteSets, TLC

VARIABLES
    \* ---- ClusteringDetector.ensemble_clustering ----
    e_pc,               \* position inside ensemble_clustering
    e_run,              \* index of the battery loop's current parameter
    clusterings,        \* the list `clusterings` of successful battery runs
    consensus_matrix,   \* consensus_matrix[i][j], normalised once e_pc is past "consensus"
    consensus_labels,   \* returned labels
    confidence_scores,  \* returned confidence
    \* ---- Config + ClusteringDetector.detect_bots ----
    pc,                 \* position of the process: import, ready, done, ...
    cfg,                \* the Config settings the specification reads
    features_df,        \* all_features_df: columns and one row per author
    results_df,         \* results_df of detect_bots, one record per author
    cluster_bot_scores, \* dict returned by identify_bot_clusters
    cluster_labels,     \* the labels handed to identify_bot_clusters
    \* ---- per-author feature extractors ----
    comments_df,        \* the comment corpus, a sequence of comments
    called,             \* which extractor or builder has been applied to comments_df
    scores,             \* what it returned: a dict, a graph, a matrix or a frame
    \* ---- TemporalFeatures._merge_overlapping_groups ----
    groups,             \* the input list of author sets
    merged_groups,      \* merge(groups)
    remerged_groups,    \* merge(merge(groups))
    m_pc,               \* how many times the merge has been applied
    \* ---- YouTubeAPI._make_request ----
    num_api_keys,       \* len(Config.YOUTUBE_API_KEYS)
    api_key_index,      \* self.api_key_index
    api_calls_count,    \* self.api_calls_count
    attempt,            \* iterations of the retry loop started in the current call
    status,             \* outcome of the latest attempt: ok, an HTTP status, exception
    result,             \* what the call returned
    calls_at_entry,     \* api_calls_count when the current call was entered
    r_pc                \* position: ready, inside the loop, returned

vars == <<e_pc, e_run, clusterings, consensus_matrix, consensus_labels, confidence_scores,
          pc, cfg, features_df, results_df, cluster_bot_scores, cluster_labels,
          comments_df, called, scores,
          groups, merged_groups, remerged_groups, m_pc,
          num_api_keys, api_key_index, api_calls_count, attempt, status, result,
          calls_at_entry, r_pc>>

ensembleVars == <<e_pc, e_run, clusterings, consensus_matrix, consensus_labels, confidence_scores>>
detectVars   == <<pc, cfg, features_df, results_df, cluster_bot_scores, cluster_labels>>
authorVars   == <<comments_df, called, scores>>
mergeVars    == <<groups, merged_groups, remerged_groups, m_pc>>
requestVars  == <<num_api_keys, api_key_index, api_calls_count, attempt, status, result,
                  calls_at_entry, r_pc>>

-----------------------------------------------------------------------------
(* Bounds of the model *)

NumAuthors == 3          \* rows of the feature array / feature table

Authors == 1..NumAuthors

-----------------------------------------------------------------------------
(* Exact rational arithmetic standing for the code's float arithmetic *)

Abs(x) == IF x < 0 THEN -x ELSE x

RECURSIVE GCD(_, _)
GCD(a, b) == IF b = 0 THEN a ELSE GCD(b, a % b)

Rat(n, d) == LET g == GCD(Abs(n), d) IN <<n \div g, d \div g>>

RZero == <<0, 1>>
ROne  == <<1, 1>>

RAdd(a, b) == Rat(a[1] * b[2] + b[1] * a[2], a[2] * b[2])
RSub(a, b) == Rat(a[1] * b[2] - b[1] * a[2], a[2] * b[2])
RMul(a, b) == Rat(a[1] * b[1], a[2] * b[2])
RDivInt(a, k) == Rat(a[1], a[2] * k)
RLe(a, b) == a[1] * b[2] <= b[1] * a[2]
RLt(a, b) == a[1] * b[2] < b[1] * a[2]
RMin(a, b) == IF RLe(a, b) THEN a ELSE b

RECURSIVE RSum(_)
RSum(s) == IF s = <<>> THEN RZero ELSE RAdd(Head(s), RSum(Tail(s)))

\* np.mean / Series.mean of a non-empty list
RMean(s) == RDivInt(RSum(s), Len(s))

-----------------------------------------------------------------------------
(* ClusteringDetector.ensemble_clustering: battery, consensus, final labels *)

MIN_SAMPLES == 2

\* for min_size in [3, 5, 10]  /  for eps in [0.3, 0.5, 0.7] (eps in tenths)
HDBSCAN_MIN_SIZES == <<3, 5, 10>>
DBSCAN_EPS == <<3, 5, 7>>

NOISE == -1

\* Highest cluster id a density clustering of NumAuthors points can use:
\* every cluster holds at least MIN_SAMPLES points.
MaxLabel == (NumAuthors \div MIN_SAMPLES) - 1

ClusterSize(l, c) == Cardinality({i \in Authors : l[i] = c})

FirstIndex(l, c) == CHOOSE i \in Authors : l[i] = c /\ \A k \in Authors : l[k] = c => i <= k

\* The label vectors fit_predict can return: clusters of at least minSize points,
\* numbered 0, 1, ... in the order in which they first occur; NOISE for the rest.
LabelVectors(minSize) ==
    {l \in [Authors -> NOISE..MaxLabel] :
        /\ \A c \in 0..MaxLabel : ClusterSize(l, c) = 0 \/ ClusterSize(l, c) >= minSize
        /\ \A c \in 1..MaxLabel :
              ClusterSize(l, c) > 0 =>
                  /\ ClusterSize(l, c - 1) > 0
                  /\ FirstIndex(l, c - 1) < FirstIndex(l, c)}

\* cluster_hdbscan(features, min_cluster_size) / cluster_dbscan(features, eps):
\* the labels are whatever the library finds in the data
cluster_hdbscan(min_cluster_size) == LabelVectors(min_cluster_size)
cluster_dbscan(eps) == LabelVectors(MIN_SAMPLES)

NoResult == <<>>

ZeroMatrix == [i \in Authors |-> [j \in Authors |-> 0]]

InnerRangeFromSelf(i) == i..NumAuthors

\* for j in range(i+1, len(features))
InnerRange(i) == (i + 1)..NumAuthors

\* if labels[i] == labels[j] and labels[i] != -1
SameCluster(labels, i, j) == labels[i] = labels[j] /\ labels[i] # NOISE

\* How often one pass of the double loop over one run's labels adds 1 to entry
\* [a][b]: consensus_matrix[i][j] += 1 with (i, j) = (a, b), and
\* consensus_matrix[j][i] += 1 with (i, j) = (b, a).
Increments(labels, a, b) ==
      (IF b \in InnerRange(a) /\ SameCluster(labels, a, b) THEN 1 ELSE 0)
    + (IF a \in InnerRange(b) /\ SameCluster(labels, b, a) THEN 1 ELSE 0)

\* the entries assigned where the code adds to them
AccumulateRunLastWins(m, labels) ==
    [a \in Authors |-> [b \in Authors |-> Increments(labels, a, b)]]

AccumulateRun(m, labels) ==
    [a \in Authors |-> [b \in Authors |-> m[a][b] + Increments(labels, a, b)]]

\* the body of the double loop for one pair (i, j), i < j
AccumulatePair(m, labels, pr) ==
    IF SameCluster(labels, pr[1], pr[2])
    THEN [m EXCEPT ![pr[1]][pr[2]] = @ + 1, ![pr[2]][pr[1]] = @ + 1]
    ELSE m

RECURSIVE AccumulatePairsInOrder(_, _, _)
\* the double loop over one run's labels, its pairs visited in the given order
AccumulatePairsInOrder(m, labels, order) ==
    IF order = <<>> THEN m
    ELSE AccumulatePairsInOrder(AccumulatePair(m, labels, Head(order)), labels, Tail(order))

\* the pairs (i, j) the double loop visits
AuthorPairs == {pr \in Authors \X Authors : pr[2] \in InnerRange(pr[1])}

RECURSIVE AccumulateAll(_, _)
AccumulateAll(m, cl) ==
    IF cl = <<>> THEN m ELSE AccumulateAll(AccumulateRun(m, Head(cl)), Tail(cl))

\* the counts divided by the six runs of the battery
NormalizeByBatterySize(m, n) ==
    [a \in Authors |-> [b \in Authors |->
        Rat(m[a][b], Len(HDBSCAN_MIN_SIZES) + Len(DBSCAN_EPS))]]

\* consensus_matrix /= len(clusterings)
Normalize(m, n) == [a \in Authors |-> [b \in Authors |-> Rat(m[a][b], n)]]

\* DBSCAN(eps=0.5, min_samples=2, metric='precomputed') on 1 - consensus_matrix
FINAL_EPS == <<1, 2>>
FINAL_MIN_SAMPLES == 2

\* neighborhoods = radius_neighbors(X): the points at distance <= eps (a point is
\* its own neighbour only if its diagonal distance is <= eps)
Neighborhood(m, i) == {j \in Authors : RLe(RSub(ROne, m[i][j]), FINAL_EPS)}

Neighborhoods(m) == [i \in Authors |-> Neighborhood(m, i)]

\* core_samples: at least min_samples neighbours
IsCore(nb, i) == Cardinality(nb[i]) >= FINAL_MIN_SAMPLES

\* the unlabelled points the expansion from the seed set S reaches through core points
RECURSIVE Expand(_, _, _)
Expand(nb, lab, S) ==
    LET T == S \cup {v \in Authors :
                        /\ lab[v] = NOISE
                        /\ \E u \in S : IsCore(nb, u) /\ v \in nb[u]}
    IN IF T = S THEN S ELSE Expand(nb, lab, T)

\* dbscan_inner: points in index order, a new cluster from every unlabelled core point
RECURSIVE DbscanFrom(_, _, _, _)
DbscanFrom(nb, lab, i, label_num) ==
    IF i > NumAuthors THEN lab
    ELSE IF lab[i] # NOISE \/ ~IsCore(nb, i) THEN DbscanFrom(nb, lab, i + 1, label_num)
    ELSE LET C == Expand(nb, lab, {i})
         IN DbscanFrom(nb, [v \in Authors |-> IF v \in C THEN label_num ELSE lab[v]],
                       i + 1, label_num + 1)

FinalClustering(m) ==
    LET nb == Neighborhoods(m) IN DbscanFrom(nb, [i \in Authors |-> NOISE], 1, 0)

\* confidence_scores[i] = consensus_matrix[i][cluster_mask].mean(), 0 for noise;
\* cluster_mask selects every point with i's label, i itself included
Confidence(m, lab) ==
    [i \in Authors |->
        IF lab[i] # NOISE
        THEN RDivInt(RSum([k \in Authors |-> IF lab[k] = lab[i] THEN m[i][k] ELSE RZero]),
                     ClusterSize(lab, lab[i]))
        ELSE RZero]

\* return np.zeros(len(features)), np.zeros(len(features))
DegenerateLabels == [i \in Authors |-> 0]
DegenerateConfidence == [i \in Authors |-> RZero]

ConsensusOf(cl) == Normalize(AccumulateAll(ZeroMatrix, cl), Len(cl))

\* ensemble_clustering as a function of the successful runs' labels
EnsembleResult(cl) ==
    IF cl = <<>>
    THEN [matrix |-> NoResult, labels |-> DegenerateLabels,
          confidence |-> DegenerateConfidence]
    ELSE LET m == ConsensusOf(cl)
             lab == FinalClustering(m)
         IN [matrix |-> m, labels |-> lab, confidence |-> Confidence(m, lab)]

InitEnsemble ==
    /\ e_pc = "hdbscan"
    /\ e_run = 1
    /\ clusterings = <<>>
    /\ consensus_matrix = NoResult
    /\ consensus_labels = NoResult
    /\ confidence_scores = NoResult

AfterRun(next_pc) ==
    IF e_run < Len(HDBSCAN_MIN_SIZES)
    THEN e_run' = e_run + 1 /\ e_pc' = e_pc
    ELSE e_run' = 1 /\ e_pc' = next_pc

\* labels = self.cluster_hdbscan(...); clusterings.append(labels)
HdbscanRunSucceeds ==
    /\ e_pc = "hdbscan"
    /\ \E labels \in cluster_hdbscan(HDBSCAN_MIN_SIZES[e_run]) :
          clusterings' = Append(clusterings, labels)
    /\ AfterRun("dbscan")
    /\ UNCHANGED <<consensus_matrix, consensus_labels, confidence_scores>>
    /\ UNCHANGED <<detectVars, authorVars, mergeVars, requestVars>>

\* except: logger.warning(...)
HdbscanRunFails ==
    /\ e_pc = "hdbscan"
    /\ AfterRun("dbscan")
    /\ UNCHANGED <<clusterings, consensus_matrix, consensus_labels, confidence_scores>>
    /\ UNCHANGED <<detectVars, authorVars, mergeVars, requestVars>>

DbscanRunSucceeds ==
    /\ e_pc = "dbscan"
    /\ \E labels \in cluster_dbscan(DBSCAN_EPS[e_run]) :
          clusterings' = Append(clusterings, labels)
    /\ AfterRun("battery_done")
    /\ UNCHANGED <<consensus_matrix, consensus_labels, confidence_scores>>
    /\ UNCHANGED <<detectVars, authorVars, mergeVars, requestVars>>

DbscanRunFails ==
    /\ e_pc = "dbscan"
    /\ AfterRun("battery_done")
    /\ UNCHANGED <<clusterings, consensus_matrix, consensus_labels, confidence_scores>>
    /\ UNCHANGED <<detectVars, authorVars, mergeVars, requestVars>>

\* if not clusterings: return zeros, zeros
ReturnDegenerate ==
    /\ e_pc = "battery_done"
    /\ clusterings = <<>>
    /\ \E r \in {EnsembleResult(clusterings)} :
          /\ consensus_labels' = r.labels
          /\ confidence_scores' = r.confidence
    /\ e_pc' = "returned"
    /\ UNCHANGED <<e_run, clusterings, consensus_matrix>>
    /\ UNCHANGED <<detectVars, authorVars, mergeVars, requestVars>>

\* consensus matrix, final clustering, confidence, return
ReturnConsensus ==
    /\ e_pc = "battery_done"
    /\ clusterings # <<>>
    /\ \E r \in {EnsembleResult(clusterings)} :
          /\ consensus_matrix' = r.matrix
          /\ consensus_labels' = r.labels
          /\ confidence_scores' = r.confidence
    /\ e_pc' = "returned"
    /\ UNCHANGED <<e_run, clusterings>>
    /\ UNCHANGED <<detectVars, authorVars, mergeVars, requestVars>>

NextEnsemble ==
    \/ HdbscanRunSucceeds
    \/ HdbscanRunFails
    \/ DbscanRunSucceeds
    \/ DbscanRunFails
    \/ ReturnDegenerate
    \/ ReturnConsensus

-----------------------------------------------------------------------------
(* Config: the thresholds and validate_config, run when the module is imported *)

\* Config as shipped
DEFAULT_SUSPICIOUS_THRESHOLD == <<1, 2>>
DEFAULT_BOT_THRESHOLD == <<7, 10>>
DEFAULT_MIN_CLUSTER_SIZE == 3
SUSPICIOUS_COMMENT_RATE == 10

ConfigRecord(keys, mcs, suspicious, bot) ==
    [api_keys |-> keys, MIN_CLUSTER_SIZE |-> mcs,
     SUSPICIOUS_PROBABILITY_THRESHOLD |-> suspicious,
     BOT_PROBABILITY_THRESHOLD |-> bot]

DefaultConfig ==
    ConfigRecord(1, DEFAULT_MIN_CLUSTER_SIZE, DEFAULT_SUSPICIOUS_THRESHOLD, DEFAULT_BOT_THRESHOLD)

\* The settings config.py / .env may hold: the shipped ones and edited ones
ConfigChoices ==
    {DefaultConfig,
     ConfigRecord(0, DEFAULT_MIN_CLUSTER_SIZE, DEFAULT_SUSPICIOUS_THRESHOLD, DEFAULT_BOT_THRESHOLD),
     ConfigRecord(1, 1, DEFAULT_SUSPICIOUS_THRESHOLD, DEFAULT_BOT_THRESHOLD),
     ConfigRecord(1, DEFAULT_MIN_CLUSTER_SIZE, DEFAULT_SUSPICIOUS_THRESHOLD, <<6, 5>>),
     ConfigRecord(1, DEFAULT_MIN_CLUSTER_SIZE, DEFAULT_SUSPICIOUS_THRESHOLD, <<-1, 10>>),
     ConfigRecord(1, DEFAULT_MIN_CLUSTER_SIZE, <<2, 5>>, <<4, 5>>),
     ConfigRecord(1, DEFAULT_MIN_CLUSTER_SIZE, <<4, 5>>, DEFAULT_BOT_THRESHOLD),
     ConfigRecord(1, DEFAULT_MIN_CLUSTER_SIZE, <<-1, 10>>, DEFAULT_BOT_THRESHOLD)}

InUnitInterval(x) == RLe(RZero, x) /\ RLe(x, ROne)

\* if not YOUTUBE_API_KEYS: raise (class body and validate_config);
\* if MIN_CLUSTER_SIZE < 2: raise; if not (0 <= BOT_PROBABILITY_THRESHOLD <= 1): raise
validate_config(c) ==
    /\ c.api_keys > 0
    /\ c.MIN_CLUSTER_SIZE >= 2
    /\ InUnitInterval(c.BOT_PROBABILITY_THRESHOLD)

\* module import: Config.validate_config() returns True or raises ValueError
ImportConfig ==
    /\ pc = "import"
    /\ pc' = IF validate_config(cfg) THEN "ready" ELSE "config_error"
    /\ UNCHANGED <<cfg, features_df, results_df, cluster_bot_scores, cluster_labels>>
    /\ UNCHANGED <<ensembleVars, authorVars, mergeVars, requestVars>>

-----------------------------------------------------------------------------
(* ClusteringDetector.detect_bots: cluster scores, individual scores, fusion *)

THRESHOLD_FEATURES ==
    <<"automation_score", "username_pattern_score", "targeting_score", "template_score">>

\* feature_weight_map, in the order the dict is iterated; weights from Config.FEATURE_WEIGHTS
FEATURE_WEIGHT_MAP ==
    << <<"burst_score", <<1, 4>> >>,
       <<"template_score", <<1, 5>> >>,
       <<"co_degree_centrality", <<1, 5>> >>,
       <<"account_age_score", <<3, 20>> >>,
       <<"username_pattern_score", <<1, 10>> >>,
       <<"comments_per_hour", <<1, 10>> >> >>

ScoreColumns ==
    {"burst_score", "template_score", "co_degree_centrality", "account_age_score",
     "username_pattern_score", "automation_score", "targeting_score"}

AllColumns == ScoreColumns \cup {"comments_per_hour"}

\* The rows a feature table is built from: every score column within [0, 1], the
\* range the extractors produce, comments_per_hour >= 0; no missing value (the
\* aggregator fills them with 0).
ConstantRow(score, age, rate) ==
    [c \in AllColumns |->
        IF c = "comments_per_hour" THEN rate
        ELSE IF c = "account_age_score" THEN age
        ELSE score]

RowProfiles ==
    {ConstantRow(RZero, ROne, RZero),          \* nothing suspicious at all
     ConstantRow(<<1, 2>>, <<1, 2>>, <<5, 1>>),
     ConstantRow(ROne, RZero, <<20, 1>>)}      \* every signal at its maximum

\* The column sets of the tables handed to detect_bots: the full table of
\* extract_all_features, one without the optional behavioural columns, and one
\* with author_id alone.
ColumnSets ==
    {AllColumns,
     AllColumns \ {"account_age_score", "comments_per_hour", "automation_score"},
     {}}

FeatureTables == [columns : ColumnSets, rows : [Authors -> RowProfiles]]

RDiv(a, b) == Rat(a[1] * b[2], a[2] * b[1])

\* labels == cluster_id, over the rows the labels were given for
Members(labels, cluster_id) == {i \in DOMAIN labels : labels[i] = cluster_id}

\* the mean of the column over every row of the table
ColumnMeanAllRows(df, members, feature) ==
    RDivInt(RSum([k \in DOMAIN df.rows |-> df.rows[k][feature]]),
            Cardinality(DOMAIN df.rows))

\* cluster_data[feature].mean()
ColumnMean(df, members, feature) ==
    RDivInt(RSum([k \in DOMAIN df.rows |->
                    IF k \in members THEN df.rows[k][feature] ELSE RZero]),
            Cardinality(members))

\* (cluster_data[...] <condition>).mean(): the fraction of members satisfying it
Fraction(members, holds) ==
    Rat(Cardinality(members \cap holds), Cardinality(members))

\* bot_indicators of one cluster, in the order they are appended
BotIndicators(df, members) ==
    LET PresentFeatures == SelectSeq(THRESHOLD_FEATURES, LAMBDA f : f \in df.columns)
    IN    [k \in 1..Len(PresentFeatures) |-> ColumnMean(df, members, PresentFeatures[k])]
       \o (IF "comments_per_hour" \in df.columns
           THEN <<Fraction(members,
                    {i \in DOMAIN df.rows : RLt(<<SUSPICIOUS_COMMENT_RATE, 1>>,
                                                df.rows[i]["comments_per_hour"])})>>
           ELSE <<>>)
       \o (IF "account_age_score" \in df.columns
           THEN <<Fraction(members,
                    {i \in DOMAIN df.rows : RLt(df.rows[i]["account_age_score"], <<3, 10>>)})>>
           ELSE <<>>)

ScoredClusterIdsWithNoise(labels) == {labels[i] : i \in DOMAIN labels}

\* for cluster_id in set(labels): if cluster_id == -1: continue
ScoredClusterIds(labels) == {labels[i] : i \in DOMAIN labels} \ {NOISE}

identify_bot_clusters(df, labels) ==
    [cluster_id \in ScoredClusterIds(labels) |->
        LET ind == BotIndicators(df, Members(labels, cluster_id))
        IN IF ind # <<>> THEN RMean(ind) ELSE RZero]

TransformedValueUnclamped(row, feature) ==
    IF feature = "account_age_score" THEN RSub(ROne, row[feature])
    ELSE IF feature = "comments_per_hour"
         THEN RDivInt(row[feature], SUSPICIOUS_COMMENT_RATE)
    ELSE row[feature]

\* value of one feature of the weight map for one row
TransformedValue(row, feature) ==
    IF feature = "account_age_score" THEN RSub(ROne, row[feature])
    ELSE IF feature = "comments_per_hour"
         THEN RMin(RDivInt(row[feature], SUSPICIOUS_COMMENT_RATE), ROne)
    ELSE row[feature]

\* the weights of the features present used as configured, not renormalised
IndividualScoreUnnormalized(df, i) ==
    LET Present == SelectSeq(FEATURE_WEIGHT_MAP, LAMBDA fw : fw[1] \in df.columns)
    IN RSum([k \in 1..Len(Present) |->
                RMul(TransformedValue(df.rows[i], Present[k][1]), Present[k][2])])

\* _calculate_individual_bot_scores for one row
IndividualScore(df, i) ==
    LET Present == SelectSeq(FEATURE_WEIGHT_MAP, LAMBDA fw : fw[1] \in df.columns)
        weighted_features == [k \in 1..Len(Present) |->
                                 TransformedValue(df.rows[i], Present[k][1])]
        raw == [k \in 1..Len(Present) |-> Present[k][2]]
        weights == [k \in 1..Len(Present) |-> RDiv(raw[k], RSum(raw))]
    IN IF Len(Present) > 0
       THEN \* np.average(weighted_features, weights=weights)
            RDiv(RSum([k \in 1..Len(Present) |-> RMul(weighted_features[k], weights[k])]),
                 RSum(weights))
       ELSE RZero

\* cluster_bot_scores.get(x, 0.0)
ClusterScoreLookup(cbs, x) == IF x \in DOMAIN cbs THEN cbs[x] ELSE RZero

CLUSTER_WEIGHT == <<3, 5>>
INDIVIDUAL_WEIGHT == <<2, 5>>

\* the mutation of FinalProbability with the two weights exchanged
FinalProbabilitySwapped(cluster_p, individual_p) ==
    RAdd(RMul(cluster_p, INDIVIDUAL_WEIGHT), RMul(individual_p, CLUSTER_WEIGHT))

\* cluster_bot_probability * 0.6 + individual_bot_probability * 0.4
FinalProbability(cluster_p, individual_p) ==
    RAdd(RMul(cluster_p, CLUSTER_WEIGHT), RMul(individual_p, INDIVIDUAL_WEIGHT))

\* pd.cut(x, bins=[0, suspicious, bot, 1.0], labels=[...]): right-closed intervals,
\* the lowest edge not included; a value in no interval gets NaN
CutBins(c) ==
    <<RZero, c.SUSPICIOUS_PROBABILITY_THRESHOLD, c.BOT_PROBABILITY_THRESHOLD, ROne>>

CUT_LABELS == <<"likely_human", "suspicious", "likely_bot">>

\* ValueError("bins must increase monotonically.") / ValueError("Bin edges must be unique")
CutRaises(bins) == \E k \in 1..(Len(bins) - 1) : ~RLt(bins[k], bins[k + 1])

\* bins.searchsorted(x, side="left"): the number of edges strictly below x
SearchSortedLeft(bins, x) == Cardinality({k \in 1..Len(bins) : RLt(bins[k], x)})

Cut(bins, x) ==
    LET id == SearchSortedLeft(bins, x)
    IN IF id = 0 \/ id = Len(bins) THEN "NaN" ELSE CUT_LABELS[id]

\* The battery outcomes detect_bots is run against: every run fails or returns
\* labels whose only cluster is the first k authors (k = 0: all noise).
PrefixLabels(k) == [i \in Authors |-> IF i <= k THEN 0 ELSE NOISE]

RunOutcomes(S) ==
    {<<>>} \cup {<<l>> : l \in {PrefixLabels(k) : k \in 0..NumAuthors} \cap S}

BatteryOutcomes ==
    {h1 \o h2 \o h3 \o d1 \o d2 \o d3 :
        h1 \in RunOutcomes(cluster_hdbscan(HDBSCAN_MIN_SIZES[1])),
        h2 \in RunOutcomes(cluster_hdbscan(HDBSCAN_MIN_SIZES[2])),
        h3 \in RunOutcomes(cluster_hdbscan(HDBSCAN_MIN_SIZES[3])),
        d1 \in RunOutcomes(cluster_dbscan(DBSCAN_EPS[1])),
        d2 \in RunOutcomes(cluster_dbscan(DBSCAN_EPS[2])),
        d3 \in RunOutcomes(cluster_dbscan(DBSCAN_EPS[3]))}

\* what ensemble_clustering hands back to detect_bots
EnsembleResults ==
    {[labels |-> r.labels, confidence |-> r.confidence] :
        r \in {EnsembleResult(cl) : cl \in BatteryOutcomes}}

\* individual_scores of _calculate_individual_bot_scores, one entry per row
IndividualScores(df) == [i \in Authors |-> IndividualScore(df, i)]

\* identify_bot_clusters called on a feature table with the labels of a clustering
IdentifyBotClusters ==
    /\ pc = "ready"
    /\ \E df \in FeatureTables :
       \E l \in cluster_dbscan(DBSCAN_EPS[2]) :
          /\ features_df' = df
          /\ cluster_labels' = l
          /\ cluster_bot_scores' = identify_bot_clusters(df, l)
    /\ pc' = "cluster_scores"
    /\ UNCHANGED <<cfg, results_df>>
    /\ UNCHANGED <<ensembleVars, authorVars, mergeVars, requestVars>>

\* detect_bots up to final_bot_probability (lines 237-266)
DetectBotsScore ==
    /\ pc = "ready"
    /\ \E df \in FeatureTables :
       \E individual_scores \in {IndividualScores(df)} :
       \E r \in EnsembleResults :
       \E cbs \in {identify_bot_clusters(df, r.labels)} :
          /\ features_df' = df
          /\ cluster_labels' = r.labels
          /\ cluster_bot_scores' = cbs
          /\ results_df' =
               [i \in Authors |->
                  LET cluster_p == ClusterScoreLookup(cbs, r.labels[i])
                  IN [cluster_id |-> r.labels[i],
                      cluster_confidence |-> r.confidence[i],
                      cluster_bot_probability |-> cluster_p,
                      individual_bot_probability |-> individual_scores[i],
                      final_bot_probability |->
                          FinalProbability(cluster_p, individual_scores[i]),
                      classification |-> "unset"]]
    /\ pc' = "scored"
    /\ UNCHANGED cfg
    /\ UNCHANGED <<ensembleVars, authorVars, mergeVars, requestVars>>

\* results_df['classification'] = pd.cut(...) (lines 268-274), then return
DetectBotsClassify ==
    /\ pc = "scored"
    /\ ~CutRaises(CutBins(cfg))
    /\ results_df' =
          [i \in Authors |->
             [results_df[i] EXCEPT
                 !.classification = Cut(CutBins(cfg), results_df[i].final_bot_probability)]]
    /\ pc' = "done"
    /\ UNCHANGED <<cfg, features_df, cluster_bot_scores, cluster_labels>>
    /\ UNCHANGED <<ensembleVars, authorVars, mergeVars, requestVars>>

\* pd.cut raises ValueError on bin edges that do not increase
DetectBotsClassifyRaises ==
    /\ pc = "scored"
    /\ CutRaises(CutBins(cfg))
    /\ pc' = "cut_error"
    /\ UNCHANGED <<cfg, features_df, results_df, cluster_bot_scores, cluster_labels>>
    /\ UNCHANGED <<ensembleVars, authorVars, mergeVars, requestVars>>

InitDetect ==
    /\ pc = "import"
    /\ cfg \in ConfigChoices
    /\ features_df = NoResult
    /\ results_df = NoResult
    /\ cluster_bot_scores = NoResult
    /\ cluster_labels = NoResult

NextDetect ==
    \/ ImportConfig
    \/ IdentifyBotClusters
    \/ DetectBotsScore
    \/ DetectBotsClassify
    \/ DetectBotsClassifyRaises

-----------------------------------------------------------------------------
(* Numbers that need a square root: q + c / (1 + sqrt(r)), all three rational.   *)
(* 1 / (1 + cv) with cv = std / mean is  0 + 1 / (1 + sqrt(var / mean^2)).       *)

RealOfRat(x) == [q |-> x, c |-> RZero, r |-> RZero]

RECURSIVE SqrtSearch(_, _, _)
\* the largest k in lo..hi with k * k <= n
SqrtSearch(n, lo, hi) ==
    IF lo = hi THEN lo
    ELSE LET mid == (lo + hi + 1) \div 2
         IN IF mid * mid <= n THEN SqrtSearch(n, mid, hi) ELSE SqrtSearch(n, lo, mid - 1)

\* 46340 is the largest integer whose square fits the 32-bit integers of the checker
ISqrt(n) == SqrtSearch(n, 0, IF n < 46340 THEN n ELSE 46340)

IsSquare(n) == ISqrt(n) * ISqrt(n) = n

\* 1.0 / (1.0 + sqrt(x)) for a rational x >= 0
InvOnePlusSqrt(x) ==
    IF IsSquare(x[1]) /\ IsSquare(x[2])
    THEN RealOfRat(Rat(ISqrt(x[2]), ISqrt(x[1]) + ISqrt(x[2])))
    ELSE [q |-> RZero, c |-> ROne, r |-> x]

\* np.mean of a non-empty list of such numbers, at most one of them irrational
RECURSIVE RealSum(_)
RealSum(s) ==
    IF s = <<>> THEN RealOfRat(RZero)
    ELSE LET h == Head(s)
             t == RealSum(Tail(s))
         IN [q |-> RAdd(h.q, t.q), c |-> RAdd(h.c, t.c),
             r |-> IF h.c # RZero THEN h.r ELSE t.r]

RealMean(s) ==
    LET t == RealSum(s)
    IN [q |-> RDivInt(t.q, Len(s)), c |-> RDivInt(t.c, Len(s)), r |-> t.r]

-----------------------------------------------------------------------------
(* The comment corpus and the per-author scores of the feature extractors *)

MaxComments == 3         \* comments in the corpus

TIME_WINDOW_SECONDS == 300
RAPID_POSTING_SECONDS == 60
HOURS_PER_DAY == 24

AuthorIds == {"UC_a", "UC_b"}

\* published_at, in seconds: 00:00:00, 00:00:45, 00:04:00 and 01:06:40
Timestamps == {0, 45, 240, 4000}

\* comment texts; "http://" stands for these seven characters in a row
Texts ==
    {<<"A", " ", " ", "#", "b", " ", "b">>,
     <<"http://", "a", "@", " ", "b", " ", "@", "a">>}

Comments == [author_id : AuthorIds, published_at : Timestamps, text : Texts]

Corpora == UNION {[1..n -> Comments] : n \in 1..MaxComments}

\* comments_df.groupby('author_id'): the rows of one author, in corpus order
Group(df, author_id) == SelectSeq(df, LAMBDA c : c.author_id = author_id)

AuthorsOf(df) == {df[k].author_id : k \in 1..Len(df)}

RECURSIVE InsertSorted(_, _)
InsertSorted(x, s) ==
    IF s = <<>> THEN <<x>>
    ELSE IF x <= Head(s) THEN <<x>> \o s
    ELSE <<Head(s)>> \o InsertSorted(x, Tail(s))

RECURSIVE SortInts(_)
SortInts(s) == IF s = <<>> THEN <<>> ELSE InsertSorted(Head(s), SortInts(Tail(s)))

\* timestamps.sort_values()
SortedTimes(group) == SortInts([k \in 1..Len(group) |-> group[k].published_at])

\* np.diff(...).astype('timedelta64[s]').astype(float)
Diff(ts) == [k \in 1..(Len(ts) - 1) |-> ts[k + 1] - ts[k]]

CountBelow(intervals, limit) ==
    Cardinality({k \in 1..Len(intervals) : intervals[k] < limit})

RECURSIVE IntSum(_)
IntSum(s) == IF s = <<>> THEN 0 ELSE Head(s) + IntSum(Tail(s))

\* (np.std(intervals) / np.mean(intervals))^2 = n * sum(x^2) / sum(x)^2 - 1
CvSquared(intervals) ==
    LET n == Len(intervals)
        sum == IntSum(intervals)
        sumsq == IntSum([k \in 1..n |-> intervals[k] * intervals[k]])
    IN Rat(n * sumsq - sum * sum, sum * sum)

\* TemporalFeatures.extract_burst_patterns, one author
BurstScore(group) ==
    IF Len(group) < 2 THEN RZero
    ELSE LET intervals == Diff(SortedTimes(group))
         IN IF Len(intervals) > 0
            THEN Rat(CountBelow(intervals, TIME_WINDOW_SECONDS), Len(intervals))
            ELSE RZero

\* the regularity computed from two comments on, a single interval included
RegularityScoreFromTwo(group) ==
    IF Len(group) < 2 THEN RealOfRat(RZero)
    ELSE LET intervals == Diff(SortedTimes(group))
         IN IF Len(intervals) = 0 THEN RealOfRat(RZero)
            ELSE IF IntSum(intervals) > 0 THEN InvOnePlusSqrt(CvSquared(intervals))
            ELSE RealOfRat(RZero)

\* TemporalFeatures.calculate_posting_regularity, one author
RegularityScore(group) ==
    IF Len(group) < 3 THEN RealOfRat(RZero)
    ELSE LET intervals == Diff(SortedTimes(group))
         IN IF Len(intervals) = 0 THEN RealOfRat(RZero)
            ELSE IF IntSum(intervals) > 0 THEN InvOnePlusSqrt(CvSquared(intervals))
            ELSE RealOfRat(RZero)

SecondOfMinute(t) == t % 60
HourOfDay(t) == (t \div 3600) % HOURS_PER_DAY

\* the minute field read in place of the second field
IsZeroSecondMinuteField(t) == (t \div 60) % 60 = 0

\* seconds == 0 on timestamps.dt.second
IsZeroSecond(t) == SecondOfMinute(t) = 0

\* BehavioralFeatures._detect_rapid_posting
RapidPosting(group) ==
    IF Len(group) < 2 THEN RZero
    ELSE LET intervals == Diff(SortedTimes(group))
         IN Rat(CountBelow(intervals, RAPID_POSTING_SECONDS),
                IF Len(intervals) > 1 THEN Len(intervals) ELSE 1)

\* BehavioralFeatures.detect_automated_behavior, one author: the indicators in the
\* order they are appended, then their mean
AutomationIndicators(group) ==
    LET n == Len(group)
        intervals == Diff(SortedTimes(group))
        zero_second_ratio ==
            Rat(Cardinality({k \in 1..n : IsZeroSecond(group[k].published_at)}), n)
        hour_coverage ==
            Rat(Cardinality({HourOfDay(group[k].published_at) : k \in 1..n}), HOURS_PER_DAY)
    IN    <<RealOfRat(zero_second_ratio)>>
       \o (IF n > 2 /\ Len(intervals) > 0 /\ IntSum(intervals) > 0
           THEN <<InvOnePlusSqrt(CvSquared(intervals))>>
           ELSE <<>>)
       \o <<RealOfRat(RapidPosting(group)), RealOfRat(hour_coverage)>>

AutomationScore(group) ==
    LET ind == AutomationIndicators(group)
    IN IF ind # <<>> THEN RealMean(ind) ELSE RealOfRat(RZero)

\* ---- TextFeatures._clean_text ----

UrlAtom == "http://"
LowerCase == {"a", "b", "h", "t", "p"}
UpperCase == {"A", "B"}
\* [A-Za-z0-9_]
WordChars == LowerCase \cup UpperCase
\* the characters the URL pattern continues over: letters, digits, $-_ @ . & + ! * ( ) ,
UrlChars == LowerCase \cup UpperCase \cup {"@", ":", "/"}

RECURSIVE SkipRun(_, _)
\* what is left of s after its longest prefix of characters of class
SkipRun(s, class) ==
    IF s # <<>> /\ Head(s) \in class THEN SkipRun(Tail(s), class) ELSE s

RECURSIVE RemoveMatches(_, _, _)
\* re.sub(start + '[class]+', '', s): leftmost, greedy, non-overlapping
RemoveMatches(s, start, class) ==
    IF s = <<>> THEN <<>>
    ELSE IF Head(s) = start /\ Len(s) >= 2 /\ s[2] \in class
         THEN RemoveMatches(SkipRun(Tail(s), class), start, class)
         ELSE <<Head(s)>> \o RemoveMatches(Tail(s), start, class)

RECURSIVE SpellOut(_)
\* the text character by character
SpellOut(s) ==
    IF s = <<>> THEN <<>>
    ELSE (IF Head(s) = UrlAtom THEN <<"h", "t", "t", "p", ":", "/", "/">> ELSE <<Head(s)>>)
         \o SpellOut(Tail(s))

RECURSIVE CollapseSpaces(_)
\* ' '.join(text.split()) on a text without leading whitespace
CollapseSpaces(s) ==
    IF s = <<>> THEN <<>>
    ELSE IF Head(s) = " "
         THEN LET rest == SkipRun(s, {" "})
              IN IF rest = <<>> THEN <<>> ELSE <<" ">> \o CollapseSpaces(rest)
         ELSE <<Head(s)>> \o CollapseSpaces(Tail(s))

Lower(ch) == IF ch = "A" THEN "a" ELSE IF ch = "B" THEN "b" ELSE ch

clean_text(text) ==
    LET no_urls == SpellOut(RemoveMatches(text, UrlAtom, UrlChars))
        no_mentions == RemoveMatches(no_urls, "@", WordChars)
        no_hashtags == RemoveMatches(no_mentions, "#", WordChars)
        joined == CollapseSpaces(SkipRun(no_hashtags, {" "}))
    IN [k \in 1..Len(joined) |-> Lower(joined[k])]

Min2(a, b) == IF a <= b THEN a ELSE b
Max2(a, b) == IF a >= b THEN a ELSE b

RECURSIVE Levenshtein(_, _)
\* Levenshtein.distance: insertions, deletions and substitutions, each of cost 1
Levenshtein(a, b) ==
    IF a = <<>> THEN Len(b)
    ELSE IF b = <<>> THEN Len(a)
    ELSE IF Head(a) = Head(b) THEN Levenshtein(Tail(a), Tail(b))
    ELSE 1 + Min2(Levenshtein(Tail(a), Tail(b)),
                  Min2(Levenshtein(Tail(a), b), Levenshtein(a, Tail(b))))

\* 1 - distance / max(len, len, 1)
EditSimilarity(a, b) ==
    RSub(ROne, Rat(Levenshtein(a, b), Max2(Max2(Len(a), Len(b)), 1)))

SingleCommentDiversityZero == RZero

\* the score of an author with fewer than two comments
SingleCommentDiversity == ROne

\* TextFeatures.calculate_comment_diversity, one author
DiversityScore(group) ==
    IF Len(group) < 2 THEN SingleCommentDiversity
    ELSE LET texts == [k \in 1..Len(group) |-> clean_text(group[k].text)]
             pairs == {<<i, j>> \in (1..Len(group)) \X (1..Len(group)) : i < j}
             RECURSIVE SimSum(_)
             SimSum(P) ==
                 IF P = {} THEN RZero
                 ELSE LET pr == CHOOSE x \in P : TRUE
                      IN RAdd(EditSimilarity(texts[pr[1]], texts[pr[2]]), SimSum(P \ {pr}))
         IN IF pairs # {}
            THEN RSub(ROne, RDivInt(SimSum(pairs), Cardinality(pairs)))
            ELSE ROne

InitAuthor ==
    /\ comments_df \in Corpora
    /\ called = "none"
    /\ scores = NoResult

extract_burst_patterns ==
    /\ called = "none"
    /\ called' = "extract_burst_patterns"
    /\ scores' = [a \in AuthorsOf(comments_df) |-> BurstScore(Group(comments_df, a))]
    /\ UNCHANGED comments_df
    /\ UNCHANGED <<ensembleVars, detectVars, mergeVars, requestVars>>

calculate_posting_regularity ==
    /\ called = "none"
    /\ called' = "calculate_posting_regularity"
    /\ scores' = [a \in AuthorsOf(comments_df) |-> RegularityScore(Group(comments_df, a))]
    /\ UNCHANGED comments_df
    /\ UNCHANGED <<ensembleVars, detectVars, mergeVars, requestVars>>

detect_automated_behavior ==
    /\ called = "none"
    /\ called' = "detect_automated_behavior"
    /\ scores' = [a \in AuthorsOf(comments_df) |-> AutomationScore(Group(comments_df, a))]
    /\ UNCHANGED comments_df
    /\ UNCHANGED <<ensembleVars, detectVars, mergeVars, requestVars>>

calculate_comment_diversity ==
    /\ called = "none"
    /\ called' = "calculate_comment_diversity"
    /\ scores' = [a \in AuthorsOf(comments_df) |-> DiversityScore(Group(comments_df, a))]
    /\ UNCHANGED comments_df
    /\ UNCHANGED <<ensembleVars, detectVars, mergeVars, requestVars>>

\* ---- BehavioralFeatures.analyze_account_age ----

SUSPICIOUS_ACCOUNT_AGE_DAYS == 30
SECONDS_PER_DAY == 86400

\* published_at of the comments of the account-age corpus, in seconds: day 0, an
\* hour before day 2, day 2, one second past day 32
AgeTimestamps ==
    {0, 2 * SECONDS_PER_DAY - 3600, 2 * SECONDS_PER_DAY, 32 * SECONDS_PER_DAY + 1}

\* the channel's published_at as enrich_with_author_data attaches it to every
\* comment of the author, <<t>> for the date t; NaT when the channel info could
\* not be fetched
NaT == <<>>
CreatedDates == {NaT, <<0>>, <<2 * SECONDS_PER_DAY>>}

CommentsWithChannel(created) ==
    {[author_id |-> a, published_at |-> t, author_channel_created |-> created[a]] :
        a \in AuthorIds, t \in AgeTimestamps}

CommentsWithoutChannel == [author_id : AuthorIds, published_at : AgeTimestamps]

\* corpora enriched with the channel data, and corpora without the column
AgeCorpora ==
    UNION {[1..n -> CommentsWithoutChannel] : n \in 1..MaxComments}
    \cup UNION {UNION {[1..n -> CommentsWithChannel(created)] : n \in 1..MaxComments} :
                  created \in [AuthorIds -> CreatedDates]}

RECURSIVE MinOf(_)
\* group['published_at'].min()
MinOf(ts) ==
    IF Len(ts) = 1 THEN ts[1]
    ELSE IF ts[1] <= MinOf(Tail(ts)) THEN ts[1] ELSE MinOf(Tail(ts))

\* the whole days of the difference, rounded towards zero
AgeDaysTruncated(first_comment_date, created_date) ==
    IF first_comment_date >= created_date
    THEN (first_comment_date - created_date) \div SECONDS_PER_DAY
    ELSE -((created_date - first_comment_date) \div SECONDS_PER_DAY)

\* (first_comment_date - created_date).days: the whole days, rounded down
AgeDays(first_comment_date, created_date) ==
    (first_comment_date - created_date) \div SECONDS_PER_DAY

\* BehavioralFeatures.analyze_account_age, one author
AgeScore(group) ==
    IF /\ "author_channel_created" \in DOMAIN group[1]
       /\ group[1].author_channel_created # NaT
    THEN LET created_date == group[1].author_channel_created[1]
             first_comment_date == MinOf([k \in 1..Len(group) |-> group[k].published_at])
             age_days == AgeDays(first_comment_date, created_date)
         IN IF age_days < 0 THEN <<1, 2>>
            ELSE IF age_days < SUSPICIOUS_ACCOUNT_AGE_DAYS
                 THEN Rat(age_days, SUSPICIOUS_ACCOUNT_AGE_DAYS)
            ELSE ROne
    ELSE <<1, 2>>

InitAge ==
    /\ comments_df \in AgeCorpora
    /\ called = "none"
    /\ scores = NoResult

analyze_account_age ==
    /\ called = "none"
    /\ called' = "analyze_account_age"
    /\ scores' = [a \in AuthorsOf(comments_df) |-> AgeScore(Group(comments_df, a))]
    /\ UNCHANGED comments_df
    /\ UNCHANGED <<ensembleVars, detectVars, mergeVars, requestVars>>

NextAge == analyze_account_age

\* ---- NetworkFeatures.build_co_occurrence_network ----

MaxNetworkComments == 4      \* comments of the co-occurrence corpus

DEFAULT_MIN_EDGE_WEIGHT == 2

\* Config.MIN_EDGE_WEIGHT: the default, and the lowest weight an edge can have
MinEdgeWeights == {1, DEFAULT_MIN_EDGE_WEIGHT}

NetworkAuthorIds == {"UC_a", "UC_b", "UC_c"}
VideoIds == {"v1", "v2"}

NetworkComments == [author_id : NetworkAuthorIds, video_id : VideoIds]

NetworkCorpora == UNION {[1..n -> NetworkComments] : n \in 1..MaxNetworkComments}

\* the keys of comments_df.groupby('video_id')
VideosOf(df) == {df[k].video_id : k \in 1..Len(df)}

\* group['author_id'].unique() of the group of one video
UniqueAuthors(df, video_id) ==
    {df[k].author_id : k \in {h \in 1..Len(df) : df[h].video_id = video_id}}

\* the keys tuple(sorted([author1, author2])) of the double loop, i < j
PairsOf(authors) == {{a, b} : a \in authors, b \in authors} \ {{a} : a \in authors}

RECURSIVE EdgeWeightsFrom(_, _, _)
\* edge_weights, a defaultdict(int), after the loop over the videos: every pair
\* of a video's authors gets += 1
EdgeWeightsFrom(df, videos, edge_weights) ==
    IF videos = {} THEN edge_weights
    ELSE LET v == CHOOSE x \in videos : TRUE
             pairs == PairsOf(UniqueAuthors(df, v))
             updated == [e \in (DOMAIN edge_weights) \cup pairs |->
                            (IF e \in DOMAIN edge_weights THEN edge_weights[e] ELSE 0)
                            + (IF e \in pairs THEN 1 ELSE 0)]
         IN EdgeWeightsFrom(df, videos \ {v}, updated)

\* an edge is kept only above the threshold
EdgeKeptAbove(weight, min_edge_weight) == weight > min_edge_weight

\* if weight >= Config.MIN_EDGE_WEIGHT
EdgeKept(weight, min_edge_weight) == weight >= min_edge_weight

\* the graph G: add_edge creates the end points, no other node is added
build_co_occurrence_network(df, min_edge_weight) ==
    LET edge_weights == EdgeWeightsFrom(df, VideosOf(df), <<>>)
        edges == {e \in DOMAIN edge_weights : EdgeKept(edge_weights[e], min_edge_weight)}
    IN [edge_weights |-> edge_weights,
        nodes |-> UNION edges,
        edges |-> edges,
        weight |-> [e \in edges |-> edge_weights[e]]]

InitNetwork ==
    /\ comments_df \in NetworkCorpora
    /\ called = "none"
    /\ scores = NoResult
    /\ cfg \in [MIN_EDGE_WEIGHT : MinEdgeWeights]
    /\ pc = "idle"
    /\ features_df = NoResult
    /\ results_df = NoResult
    /\ cluster_bot_scores = NoResult
    /\ cluster_labels = NoResult

BuildCoOccurrenceNetwork ==
    /\ called = "none"
    /\ called' = "build_co_occurrence_network"
    /\ scores' = build_co_occurrence_network(comments_df, cfg.MIN_EDGE_WEIGHT)
    /\ UNCHANGED comments_df
    /\ UNCHANGED <<ensembleVars, detectVars, mergeVars, requestVars>>

NextNetwork == BuildCoOccurrenceNetwork

\* ---- TextFeatures.extract_text_similarity_matrix ----

\* comment texts: two that clean to the same word, one that is a stop word, two
\* that clean to the empty string, one that shares a word with the first two
SimilarityTexts ==
    {<<"b", "a", "t">>, <<"B", "A", "t">>, <<"A", "t">>, <<"@", "a">>, <<"#", "b">>,
     <<"b", "a", "t", " ", "a", "b">>}

SimilarityCorpora == UNION {[1..n -> [text : SimilarityTexts]] : n \in 1..MaxComments}

RECURSIVE TakeRun(_, _)
\* the longest prefix of s of characters of class
TakeRun(s, class) ==
    IF s # <<>> /\ Head(s) \in class THEN <<Head(s)>> \o TakeRun(Tail(s), class) ELSE <<>>

RECURSIVE Tokens(_)
\* TfidfVectorizer's token_pattern (?u)\b\w\w+\b: the runs of two or more word
\* characters, in order
Tokens(s) ==
    IF s = <<>> THEN <<>>
    ELSE IF Head(s) \in WordChars
         THEN (IF Len(TakeRun(s, WordChars)) >= 2 THEN <<TakeRun(s, WordChars)>> ELSE <<>>)
              \o Tokens(SkipRun(s, WordChars))
         ELSE Tokens(Tail(s))

\* the words of stop_words='english' over the letters of the texts
STOP_WORDS == {<<"a", "t">>, <<"t", "h", "a", "t">>}

\* the analyzer: tokens that are not stop words
Analyze(doc) == SelectSeq(Tokens(doc), LAMBDA t : t \notin STOP_WORDS)

\* vocabulary_ after fit; max_features=100 prunes nothing on these texts
Vocabulary(texts) ==
    UNION {{Analyze(texts[k])[h] : h \in 1..Len(Analyze(texts[k]))} : k \in 1..Len(texts)}

\* the term counts of one document
TermCount(doc, term) ==
    Cardinality({h \in 1..Len(Analyze(doc)) : Analyze(doc)[h] = term})

\* a similarity whose value depends on the idf weights: strictly between 0 and 1
Oblique == [kind |-> "oblique", value |-> <<>>]

\* cosine_similarity of two rows of the tf-idf matrix. Row k is count * idf, L2
\* normalised, with idf > 0 for every term: a document without vocabulary terms
\* is a zero row, which normalize() leaves zero, so its cosine with every row,
\* itself included, is 0; proportional count vectors give the same unit vector
CosineSimilarity(texts, i, j) ==
    LET vocabulary == Vocabulary(texts)
        x == [t \in vocabulary |-> TermCount(texts[i], t)]
        y == [t \in vocabulary |-> TermCount(texts[j], t)]
    IN IF (\A t \in vocabulary : x[t] = 0) \/ (\A t \in vocabulary : y[t] = 0)
       THEN [kind |-> "cosine", value |-> RZero]
       ELSE IF \A t \in vocabulary : x[t] = 0 \/ y[t] = 0
            THEN [kind |-> "cosine", value |-> RZero]
       ELSE IF \A s \in vocabulary : \A t \in vocabulary : x[s] * y[t] = x[t] * y[s]
            THEN [kind |-> "cosine", value |-> ROne]
       ELSE Oblique

\* the except branch: 1 - distance / max(len, len, 1) off the diagonal,
\* fill_diagonal(1.0)
FallbackSimilarity(texts, i, j) ==
    IF i = j THEN [kind |-> "edit", value |-> ROne]
    ELSE [kind |-> "edit", value |-> EditSimilarity(texts[i], texts[j])]

\* fit_transform raises ValueError (empty vocabulary) when no document holds a
\* term; the bare except then takes the edit-distance branch
extract_text_similarity_matrix(df) ==
    LET texts == [k \in 1..Len(df) |-> clean_text(df[k].text)]
    IN IF Vocabulary(texts) = {}
       THEN [i \in 1..Len(df) |-> [j \in 1..Len(df) |-> FallbackSimilarity(texts, i, j)]]
       ELSE [i \in 1..Len(df) |-> [j \in 1..Len(df) |-> CosineSimilarity(texts, i, j)]]

InitSimilarity ==
    /\ comments_df \in SimilarityCorpora
    /\ called = "none"
    /\ scores = NoResult

ExtractTextSimilarityMatrix ==
    /\ called = "none"
    /\ called' = "extract_text_similarity_matrix"
    /\ scores' = extract_text_similarity_matrix(comments_df)
    /\ UNCHANGED comments_df
    /\ UNCHANGED <<ensembleVars, detectVars, mergeVars, requestVars>>

NextSimilarity == ExtractTextSimilarityMatrix

\* ---- YouTubeBotnetDetector.extract_all_features ----

MaxFeatureComments == 2      \* comments of the corpus handed to extract_all_features

FeatureTimestamps == {0, 45}

FeatureComments ==
    [author_id : NetworkAuthorIds, video_id : VideoIds,
     published_at : FeatureTimestamps, text : Texts]

FeatureCorpora == UNION {[1..n -> FeatureComments] : n \in 1..MaxFeatureComments}

\* a missing value of a frame
NaN == <<>>

\* the square root of a rational, kept exact
SqrtOf(r) == <<r[1], r[2], 2>>

\* one cell of a frame: its value and the extractor frame the value came from
Cell(v, frame) == [value |-> v, frame |-> frame]

\* one row of a frame: the key and the cells of the other columns. A column
\* name is <<name>>, and <<name, "_dup">> once the merge has suffixed it
FrameRow(author_id, cells) == [author_id |-> author_id, cells |-> cells]

\* the order in which groupby('author_id') yields its keys
SortedAuthorIds == <<"UC_a", "UC_b", "UC_c">>

GroupbyKeys(df) == SelectSeq(SortedAuthorIds, LAMBDA a : a \in AuthorsOf(df))

RECURSIVE UniqueInOrder(_, _)
\* comments_df['author_id'].unique(): the ids in order of first appearance
UniqueInOrder(df, seen) ==
    IF df = <<>> THEN <<>>
    ELSE IF Head(df).author_id \in seen THEN UniqueInOrder(Tail(df), seen)
    ELSE <<Head(df).author_id>> \o UniqueInOrder(Tail(df), seen \cup {Head(df).author_id})

\* extract_time_patterns with the burst_score column mapped on: one row per group
temporal_frame(df) ==
    [k \in 1..Len(GroupbyKeys(df)) |->
        LET a == GroupbyKeys(df)[k]
        IN FrameRow(a,
              (<<"comment_count">> :> Cell(Rat(Len(Group(df, a)), 1), "temporal_df"))
           @@ (<<"burst_score">> :> Cell(BurstScore(Group(df, a)), "temporal_df")))]

\* texts.str.len().std(): the sample standard deviation, NaN for one comment
StdCommentLength(group) ==
    LET n == Len(group)
        lens == [k \in 1..n |-> Len(SpellOut(group[k].text))]
        sum == IntSum(lens)
        sumsq == IntSum([k \in 1..n |-> lens[k] * lens[k]])
    IN IF n < 2 THEN NaN ELSE SqrtOf(Rat(n * sumsq - sum * sum, n * (n - 1)))

\* extract_linguistic_features with the diversity_score column mapped on
linguistic_frame(df) ==
    [k \in 1..Len(GroupbyKeys(df)) |->
        LET a == GroupbyKeys(df)[k]
        IN FrameRow(a,
              (<<"std_comment_length">> :> Cell(StdCommentLength(Group(df, a)), "linguistic_df"))
           @@ (<<"total_comments">> :> Cell(Rat(Len(Group(df, a)), 1), "linguistic_df"))
           @@ (<<"diversity_score">> :> Cell(DiversityScore(Group(df, a)), "linguistic_df")))]

\* co_degree of calculate_author_network_features: G.degree(node), 0 for an
\* author that is not a node of the co-occurrence graph
CoDegree(G, author_id) ==
    IF author_id \in G.nodes
    THEN Cardinality({e \in G.edges : author_id \in e})
    ELSE 0

\* calculate_author_network_features: one row per entry of unique()
network_frame(df) ==
    LET G == build_co_occurrence_network(df, DEFAULT_MIN_EDGE_WEIGHT)
        unique_authors == UniqueInOrder(df, {})
    IN [k \in 1..Len(unique_authors) |->
          FrameRow(unique_authors[k],
             <<"co_degree">> :> Cell(Rat(CoDegree(G, unique_authors[k]), 1), "network_df"))]

\* the frame handed back with its missing values left in place
KeepMissing(frame) == frame

\* DataFrame.fillna(0)
fillna(frame) ==
    [k \in 1..Len(frame) |->
        FrameRow(frame[k].author_id,
           [c \in DOMAIN frame[k].cells |->
               IF frame[k].cells[c].value = NaN
               THEN Cell(RZero, frame[k].cells[c].frame)
               ELSE frame[k].cells[c]])]

\* compile_behavioral_features: analyze_activity_patterns as base, the scores
\* mapped on, fillna(0)
behavioral_frame(df) ==
    fillna([k \in 1..Len(GroupbyKeys(df)) |->
        LET a == GroupbyKeys(df)[k]
        IN FrameRow(a,
              (<<"total_comments">> :> Cell(Rat(Len(Group(df, a)), 1), "behavioral_df"))
           @@ (<<"account_age_score">> :> Cell(AgeScore(Group(df, a)), "behavioral_df")))])

ColumnsOf(frame) == IF frame = <<>> THEN {} ELSE DOMAIN frame[1].cells

\* the cells of one merged row: the left columns under their names (suffix ''),
\* a right column under its name, or under name + '_dup' when the left frame has
\* a column of that name; a side without a matching row contributes NaN
JoinedCells(left_cols, right_cols, l, r) ==
    LET renamed(c) == IF c \in left_cols THEN c \o <<"_dup">> ELSE c
    IN [c \in left_cols \cup {renamed(x) : x \in right_cols} |->
          IF c \in left_cols
          THEN (IF l = <<>> THEN Cell(NaN, "merge") ELSE l[1].cells[c])
          ELSE LET x == CHOOSE y \in right_cols : renamed(y) = c
               IN IF r = <<>> THEN Cell(NaN, "merge") ELSE r[1].cells[x]]

RECURSIVE JoinLeft(_, _, _, _)
\* the rows of the outer merge that hold a left row: one per matching right
\* row, one with missing right cells when there is none
JoinLeft(left, right, left_cols, right_cols) ==
    IF left = <<>> THEN <<>>
    ELSE LET l == Head(left)
             matches == SelectSeq(right, LAMBDA r : r.author_id = l.author_id)
         IN (IF matches = <<>>
             THEN <<FrameRow(l.author_id, JoinedCells(left_cols, right_cols, <<l>>, <<>>))>>
             ELSE [k \in 1..Len(matches) |->
                     FrameRow(l.author_id,
                              JoinedCells(left_cols, right_cols, <<l>>, <<matches[k]>>))])
            \o JoinLeft(Tail(left), right, left_cols, right_cols)

\* features_df.merge(df, on='author_id', how='outer', suffixes=('', '_dup'))
OuterMerge(left, right) ==
    LET left_cols == ColumnsOf(left)
        right_cols == ColumnsOf(right)
        right_only == SelectSeq(right, LAMBDA r :
                         \A k \in 1..Len(left) : left[k].author_id # r.author_id)
    IN JoinLeft(left, right, left_cols, right_cols)
       \o [k \in 1..Len(right_only) |->
             FrameRow(right_only[k].author_id,
                      JoinedCells(left_cols, right_cols, <<>>, <<right_only[k]>>))]

\* features_df.loc[:, ~features_df.columns.str.endswith('_dup')]
DropDupColumns(frame) ==
    [k \in 1..Len(frame) |->
        FrameRow(frame[k].author_id,
           [c \in {x \in DOMAIN frame[k].cells : x[Len(x)] # "_dup"} |-> frame[k].cells[c]])]

RECURSIVE MergeAll(_, _)
\* the loop over [linguistic_df, network_df, behavioral_df]
MergeAll(features, frames) ==
    IF frames = <<>> THEN features
    ELSE MergeAll(DropDupColumns(OuterMerge(features, Head(frames))), Tail(frames))

extract_all_features(df) ==
    fillna(MergeAll(temporal_frame(df),
                    <<linguistic_frame(df), network_frame(df), behavioral_frame(df)>>))

InitFeatures ==
    /\ comments_df \in FeatureCorpora
    /\ called = "none"
    /\ scores = NoResult

ExtractAllFeatures ==
    /\ called = "none"
    /\ called' = "extract_all_features"
    /\ scores' = extract_all_features(comments_df)
    /\ UNCHANGED comments_df
    /\ UNCHANGED <<ensembleVars, detectVars, mergeVars, requestVars>>

NextFeatures == ExtractAllFeatures

\* ---- The pipeline on a coordinated burst: five authors, one comment each ----

ScenarioAuthorIds == <<"UC_1", "UC_2", "UC_3", "UC_4", "UC_5">>

ScenarioRows == 1..Len(ScenarioAuthorIds)

\* an ordinary display name: eight distinct characters (entropy 3), no match of
\* a bot pattern, Levenshtein.ratio to every other name below the threshold
PlainUsername(k) == [pattern_match |-> FALSE, entropy |-> <<3, 1>>, family |-> k]

\* a generated name, letters followed by digits, sixteen distinct characters
\* (entropy 4): it matches ^[a-z]+\d{4,}$, and two such names differ in one
\* character, a ratio above the threshold
GeneratedUsername == [pattern_match |-> TRUE, entropy |-> <<4, 1>>, family |-> 0]

\* what the corpus holds about author k besides the comment: the display name
\* and the channel's creation date. Either nothing is known and the name is
\* ordinary, or the channel was created on the day of the comment under a
\* generated name
ScenarioProfiles(k) ==
    {[author |-> PlainUsername(k), author_channel_created |-> NaT],
     [author |-> GeneratedUsername, author_channel_created |-> <<0>>]}

\* the near-identical promotional texts: the same words, the capitals differ
ScenarioText(k) == IF k % 2 = 1 THEN <<"b", "a", "t">> ELSE <<"B", "A", "t">>

\* the five comments are posted ten seconds apart, the first of them on a
\* full minute or five seconds past it
ScenarioFirstSeconds == {0, 5}

ScenarioTimestamp(first, k) == first + 10 * (k - 1)

\* Config.POLITICAL_KEYWORDS found in the title of the video: none, or one
ScenarioTitleKeywords == {0, 1}

POLITICAL_KEYWORDS ==
    <<"trump", "biden", "democrat", "republican", "liberal", "conservative",
      "election", "vote", "policy", "government", "politics">>

ScenarioCorpora ==
    {[k \in ScenarioRows |->
        [author_id |-> ScenarioAuthorIds[k],
         video_id |-> "v1",
         published_at |-> ScenarioTimestamp(first, k),
         text |-> ScenarioText(k),
         author |-> profile[k].author,
         author_channel_created |-> profile[k].author_channel_created,
         title_keywords |-> keywords]] :
        first \in ScenarioFirstSeconds,
        profile \in {p \in [ScenarioRows -> UNION {ScenarioProfiles(k) : k \in ScenarioRows}] :
                        \A k \in ScenarioRows : p[k] \in ScenarioProfiles(k)},
        keywords \in ScenarioTitleKeywords}

SIMILARITY_THRESHOLD == <<17, 20>>

\* detect_template_comments on the matrix of extract_text_similarity_matrix:
\* per comment the fraction of the other comments with similarity above the
\* threshold, averaged per author
TemplateScore(df, similarity_matrix, author_id) ==
    LET n == Len(df)
        of_comment(idx) ==
            IF n > 1
            THEN Rat(Cardinality({j \in (1..n) \ {idx} :
                        /\ similarity_matrix[idx][j] # Oblique
                        /\ RLt(SIMILARITY_THRESHOLD, similarity_matrix[idx][j].value)}),
                     n - 1)
            ELSE RZero
        own == SelectSeq([k \in 1..n |-> k], LAMBDA k : df[k].author_id = author_id)
    IN RMean([k \in 1..Len(own) |-> of_comment(own[k])])

\* nx.degree_centrality through extract_network_metrics, 0 for an author that
\* is not a node of the graph
CoDegreeCentrality(G, author_id) ==
    IF author_id \in G.nodes
    THEN Rat(CoDegree(G, author_id), Cardinality(G.nodes) - 1)
    ELSE RZero

\* comments_per_hour of extract_time_patterns
CommentsPerHour(group) ==
    LET ts == SortedTimes(group)
        active_seconds == ts[Len(ts)] - ts[1]
    IN IF active_seconds > 0
       THEN Rat(Len(group) * 3600, active_seconds)
       ELSE Rat(Len(group), 1)

\* analyze_username_patterns, one author
UsernameScore(df, author_id) ==
    LET all_usernames == {[author_id |-> df[k].author_id, author |-> df[k].author] :
                             k \in 1..Len(df)}
        own == (CHOOSE u \in all_usernames : u.author_id = author_id).author
        similarities == {u \in all_usernames :
                            u.author_id # author_id /\ u.author.family = own.family}
        pattern_score == IF own.pattern_match THEN ROne ELSE RZero
        entropy_score == RMin(RDivInt(own.entropy, 3), ROne)
        similarity_score ==
            Rat(Cardinality(similarities), Max2(Cardinality(all_usernames) - 1, 1))
    IN RAdd(RMul(pattern_score, <<2, 5>>),
            RAdd(RMul(entropy_score, <<3, 10>>), RMul(similarity_score, <<3, 10>>)))

\* analyze_content_targeting, one author; every comment of the corpus is on
\* one video, hence one channel
TargetingScore(group) ==
    LET unique_channels == Cardinality({group[k].video_id : k \in 1..Len(group)})
        channel_concentration == Rat(1, Max2(unique_channels, 1))
        political_concentration ==
            Rat(group[1].title_keywords, Max2(Len(POLITICAL_KEYWORDS), 1))
    IN RAdd(RMul(channel_concentration, <<3, 5>>),
            RMul(political_concentration, <<2, 5>>))

\* the columns of extract_all_features that detect_bots reads, one row per
\* author, from the similarity matrix and the co-occurrence graph of the corpus
ScenarioFeatures(df, similarity_matrix, G) ==
       [columns |-> AllColumns,
        rows |-> [i \in ScenarioRows |->
            LET a == ScenarioAuthorIds[i]
                group == Group(df, a)
            IN [c \in AllColumns |->
                  CASE c = "burst_score" -> BurstScore(group)
                    [] c = "template_score" -> TemplateScore(df, similarity_matrix, a)
                    [] c = "co_degree_centrality" -> CoDegreeCentrality(G, a)
                    [] c = "account_age_score" -> AgeScore(group)
                    [] c = "username_pattern_score" -> UsernameScore(df, a)
                    [] c = "automation_score" -> AutomationScore(group).q
                    [] c = "targeting_score" -> TargetingScore(group)
                    [] c = "comments_per_hour" -> CommentsPerHour(group)]]]

\* what ensemble_clustering can return for five rows: every row unassigned,
\* or one cluster 0 of three or more rows (a cluster of the final DBSCAN holds
\* a core row and its two or more neighbours), the all-zero fallback included
ScenarioLabelVectors ==
    {l \in [ScenarioRows -> {NOISE, 0}] :
        Cardinality({i \in ScenarioRows : l[i] = 0}) # 1
        /\ Cardinality({i \in ScenarioRows : l[i] = 0}) # 2}

InitScenario ==
    /\ comments_df \in ScenarioCorpora
    /\ called = "none"
    /\ scores = NoResult
    /\ pc = "collected"
    /\ cfg = DefaultConfig
    /\ features_df = NoResult
    /\ results_df = NoResult
    /\ cluster_bot_scores = NoResult
    /\ cluster_labels = NoResult

\* features_df = self.extract_all_features(comments_df)
ScenarioExtractFeatures ==
    /\ pc = "collected"
    /\ \E similarity_matrix \in {extract_text_similarity_matrix(comments_df)} :
       \E G \in {build_co_occurrence_network(comments_df, DEFAULT_MIN_EDGE_WEIGHT)} :
          features_df' = ScenarioFeatures(comments_df, similarity_matrix, G)
    /\ pc' = "ready"
    /\ UNCHANGED <<cfg, results_df, cluster_bot_scores, cluster_labels>>
    /\ UNCHANGED <<ensembleVars, authorVars, mergeVars, requestVars>>

\* detect_bots up to final_bot_probability on the scenario's table
ScenarioDetectBots ==
    /\ pc = "ready"
    /\ \E labels \in ScenarioLabelVectors :
       \E cbs \in {identify_bot_clusters(features_df, labels)} :
          /\ cluster_labels' = labels
          /\ cluster_bot_scores' = cbs
          /\ results_df' =
               [i \in ScenarioRows |->
                  LET cluster_p == ClusterScoreLookup(cbs, labels[i])
                      individual_p == IndividualScore(features_df, i)
                  IN [cluster_id |-> labels[i],
                      cluster_bot_probability |-> cluster_p,
                      individual_bot_probability |-> individual_p,
                      final_bot_probability |-> FinalProbability(cluster_p, individual_p)]]
    /\ pc' = "scored"
    /\ UNCHANGED <<cfg, features_df>>
    /\ UNCHANGED <<ensembleVars, authorVars, mergeVars, requestVars>>

NextScenario == ScenarioExtractFeatures \/ ScenarioDetectBots

\* ---- TextFeatures.detect_template_comments ----

\* comment texts: two that clean to the same word, an unrelated word, a stop word
TemplateTexts == {<<"b", "a", "t">>, <<"B", "A", "t">>, <<"a", "b">>, <<"A", "t">>}

TemplateCorpora ==
    UNION {[1..n -> [author_id : AuthorIds, text : TemplateTexts]] : n \in 1..MaxComments}

InitTemplate ==
    /\ comments_df \in TemplateCorpora
    /\ called = "none"
    /\ scores = NoResult

detect_template_comments ==
    /\ called = "none"
    /\ called' = "detect_template_comments"
    /\ \E similarity_matrix \in {extract_text_similarity_matrix(comments_df)} :
          scores' = [a \in AuthorsOf(comments_df) |->
                        TemplateScore(comments_df, similarity_matrix, a)]
    /\ UNCHANGED comments_df
    /\ UNCHANGED <<ensembleVars, detectVars, mergeVars, requestVars>>

NextTemplate == detect_template_comments

\* ---- TextFeatures.find_duplicate_comments ----

\* comment texts of eleven characters: the second is one edit from the first
\* and from the third (similarity 10/11), the first and the third are two
\* edits apart (9/11); and a short unrelated text
DuplicateTexts ==
    {<<"a", "a", "a", "a", "a", "a", "a", "a", "a", "a", "a">>,
     <<"a", "a", "a", "a", "a", "a", "a", "a", "a", "a", "b">>,
     <<"a", "a", "a", "a", "a", "a", "a", "a", "a", "b", "b">>,
     <<"b">>}

\* the comment in row k has comment_id k
DuplicateCorpora == UNION {[1..n -> [text : DuplicateTexts]] : n \in 1..MaxComments}

NEAR_DUPLICATE_SIMILARITY == <<9, 10>>

\* the groups of the loop over groupby('text_hash'): the rows of one cleaned
\* text, kept when there is more than one
HashGroups(df) ==
    {g \in {{h \in 1..Len(df) : clean_text(df[h].text) = clean_text(df[k].text)} :
               k \in 1..Len(df)} : Cardinality(g) > 1}

\* the rows after the anchor whose raw text is similar to the anchor's
SimilarToAnchor(df, idx1, processed) ==
    {idx2 \in (idx1 + 1)..Len(df) :
        /\ idx2 \notin processed
        /\ RLt(NEAR_DUPLICATE_SIMILARITY, EditSimilarity(df[idx1].text, df[idx2].text))}

RECURSIVE NearDuplicateGroups(_, _, _, _)
\* the second loop: every unprocessed row in turn is the anchor of
\* similar_group; a group of more than one row is appended and processed
NearDuplicateGroups(df, idx1, processed, duplicate_groups) ==
    IF idx1 > Len(df) THEN duplicate_groups
    ELSE IF idx1 \in processed
         THEN NearDuplicateGroups(df, idx1 + 1, processed, duplicate_groups)
    ELSE LET similar_group == {idx1} \cup SimilarToAnchor(df, idx1, processed)
         IN IF Cardinality(similar_group) > 1
            THEN NearDuplicateGroups(df, idx1 + 1, processed \cup similar_group,
                                     Append(duplicate_groups, similar_group))
            ELSE NearDuplicateGroups(df, idx1 + 1, processed, duplicate_groups)

\* the returned list: the hash groups, then the near-duplicate groups
find_duplicate_comments(df) ==
    [hash_groups |-> HashGroups(df),
     near_groups |-> NearDuplicateGroups(df, 1, {}, <<>>)]

InitDuplicates ==
    /\ comments_df \in DuplicateCorpora
    /\ called = "none"
    /\ scores = NoResult

FindDuplicateComments ==
    /\ called = "none"
    /\ called' = "find_duplicate_comments"
    /\ scores' = find_duplicate_comments(comments_df)
    /\ UNCHANGED comments_df
    /\ UNCHANGED <<ensembleVars, detectVars, mergeVars, requestVars>>

NextDuplicates == FindDuplicateComments

NextAuthor ==
    \/ extract_burst_patterns
    \/ calculate_posting_regularity
    \/ detect_automated_behavior
    \/ calculate_comment_diversity

-----------------------------------------------------------------------------
(* TemporalFeatures._merge_overlapping_groups *)

MaxGroups == 3           \* groups handed to the merge
MaxAuthorId == 3         \* authors the groups are drawn from

GroupAuthors == 1..MaxAuthorId

AuthorGroups == (SUBSET GroupAuthors) \ {{}}

GroupLists == UNION {[1..n -> AuthorGroups] : n \in 0..MaxGroups}

\* index of the first group of merged that shares an author with group, 0 if none
FirstOverlap(merged, group) ==
    IF \E k \in 1..Len(merged) : merged[k] \cap group # {}
    THEN CHOOSE k \in 1..Len(merged) :
            /\ merged[k] \cap group # {}
            /\ \A h \in 1..(k - 1) : merged[h] \cap group = {}
    ELSE 0

\* one turn of the outer loop: merged_group.update(group) on the first overlap and
\* break, merged.append(group.copy()) when the inner loop found none
MergeStep(merged, group) ==
    LET k == FirstOverlap(merged, group)
    IN IF k = 0 THEN Append(merged, group)
       ELSE [merged EXCEPT ![k] = merged[k] \cup group]

RECURSIVE MergeFrom(_, _)
MergeFrom(merged, gs) ==
    IF gs = <<>> THEN merged ELSE MergeFrom(MergeStep(merged, Head(gs)), Tail(gs))

merge_overlapping_groups(gs) == IF gs = <<>> THEN <<>> ELSE MergeFrom(<<>>, gs)

InitMerge ==
    /\ groups \in GroupLists
    /\ merged_groups = NoResult
    /\ remerged_groups = NoResult
    /\ m_pc = "start"

\* merged = self._merge_overlapping_groups(groups)
Merge ==
    /\ m_pc = "start"
    /\ merged_groups' = merge_overlapping_groups(groups)
    /\ m_pc' = "merged"
    /\ UNCHANGED <<groups, remerged_groups>>
    /\ UNCHANGED <<ensembleVars, detectVars, authorVars, requestVars>>

\* the merge applied to its own output
MergeAgain ==
    /\ m_pc = "merged"
    /\ remerged_groups' = merge_overlapping_groups(merged_groups)
    /\ m_pc' = "remerged"
    /\ UNCHANGED <<groups, merged_groups>>
    /\ UNCHANGED <<ensembleVars, detectVars, authorVars, requestVars>>

NextMerge == Merge \/ MergeAgain

-----------------------------------------------------------------------------
(* The parts of the state a specification does not use stay at rest *)

IdleEnsemble ==
    /\ e_pc = "idle"
    /\ e_run = 0
    /\ clusterings = <<>>
    /\ consensus_matrix = NoResult
    /\ consensus_labels = NoResult
    /\ confidence_scores = NoResult

IdleDetect ==
    /\ pc = "idle"
    /\ cfg = NoResult
    /\ features_df = NoResult
    /\ results_df = NoResult
    /\ cluster_bot_scores = NoResult
    /\ cluster_labels = NoResult

IdleAuthor ==
    /\ comments_df = NoResult
    /\ called = "idle"
    /\ scores = NoResult

IdleMerge ==
    /\ groups = NoResult
    /\ merged_groups = NoResult
    /\ remerged_groups = NoResult
    /\ m_pc = "idle"

IdleRequest ==
    /\ num_api_keys = 0
    /\ api_key_index = 0
    /\ api_calls_count = 0
    /\ attempt = 0
    /\ status = "none"
    /\ result = NoResult
    /\ calls_at_entry = 0
    /\ r_pc = "idle"

(* ensemble_clustering called on a feature array of NumAuthors rows *)
InitSpecEnsemble == InitEnsemble /\ IdleDetect /\ IdleAuthor /\ IdleMerge /\ IdleRequest

SpecEnsemble == InitSpecEnsemble /\ [][NextEnsemble]_vars

(* One extractor is applied to a comment corpus *)
InitSpecAuthor == InitAuthor /\ IdleEnsemble /\ IdleDetect /\ IdleMerge /\ IdleRequest

SpecAuthor == InitSpecAuthor /\ [][NextAuthor]_vars

(* analyze_account_age is applied to a corpus with or without channel data *)
InitSpecAge == InitAge /\ IdleEnsemble /\ IdleDetect /\ IdleMerge /\ IdleRequest

SpecAge == InitSpecAge /\ [][NextAge]_vars

(* build_co_occurrence_network is applied to a corpus of comments on videos *)
InitSpecNetwork == InitNetwork /\ IdleEnsemble /\ IdleMerge /\ IdleRequest

SpecNetwork == InitSpecNetwork /\ [][NextNetwork]_vars

(* extract_text_similarity_matrix is applied to a corpus of comment texts *)
InitSpecSimilarity == InitSimilarity /\ IdleEnsemble /\ IdleDetect /\ IdleMerge /\ IdleRequest

SpecSimilarity == InitSpecSimilarity /\ [][NextSimilarity]_vars

(* extract_all_features is applied to a comment corpus *)
InitSpecFeatures == InitFeatures /\ IdleEnsemble /\ IdleDetect /\ IdleMerge /\ IdleRequest

SpecFeatures == InitSpecFeatures /\ [][NextFeatures]_vars

(* The pipeline runs on a corpus of five authors with one comment each *)
InitSpecScenario == InitScenario /\ IdleEnsemble /\ IdleMerge /\ IdleRequest

SpecScenario == InitSpecScenario /\ [][NextScenario]_vars

(* detect_template_comments is applied to a corpus of comment texts *)
InitSpecTemplate == InitTemplate /\ IdleEnsemble /\ IdleDetect /\ IdleMerge /\ IdleRequest

SpecTemplate == InitSpecTemplate /\ [][NextTemplate]_vars

(* find_duplicate_comments is applied to a corpus of comment texts *)
InitSpecDuplicates == InitDuplicates /\ IdleEnsemble /\ IdleDetect /\ IdleMerge /\ IdleRequest

SpecDuplicates == InitSpecDuplicates /\ [][NextDuplicates]_vars

(* TemporalFeatures.detect_synchronized_posting *)

MaxSyncComments == 4     \* comments of a corpus handed to the detection

SyncAuthorIds == {"UC_a", "UC_b", "UC_c", "UC_d"}

SyncTimestamps == {0, 200, 400}

SyncCorpora ==
    UNION {[1..n -> [author_id : SyncAuthorIds, published_at : SyncTimestamps]] :
              n \in 1..MaxSyncComments}

DEFAULT_WINDOW_SECONDS == 300

\* position of row k after sort_values('timestamp'); rows of one timestamp
\* have the same window, so their relative order does not change the result
SortPosition(df, k) ==
    1 + Cardinality({j \in 1..Len(df) :
                        \/ df[j].published_at < df[k].published_at
                        \/ df[j].published_at = df[k].published_at /\ j < k})

\* the index labels in the order of iterrows()
SortedIndex(df) ==
    [p \in 1..Len(df) |-> CHOOSE k \in 1..Len(df) : SortPosition(df, k) = p]

\* mask: the rows with current_time <= timestamp <= window_end
WindowComments(df, idx, window_seconds) ==
    {k \in 1..Len(df) :
        /\ df[k].published_at >= df[idx].published_at
        /\ df[k].published_at <= df[idx].published_at + window_seconds}

AuthorsInWindow(df, idx, window_seconds) ==
    {df[k].author_id : k \in WindowComments(df, idx, window_seconds)}

RECURSIVE SynchronizedGroups(_, _, _, _, _, _)
\* the loop over the sorted rows: a processed row is skipped; a window of
\* MIN_CLUSTER_SIZE authors is appended and its rows are processed
SynchronizedGroups(df, window_seconds, order, pos, processed_indices, synchronized_groups) ==
    IF pos > Len(order) THEN synchronized_groups
    ELSE IF order[pos] \in processed_indices
         THEN SynchronizedGroups(df, window_seconds, order, pos + 1, processed_indices,
                                 synchronized_groups)
    ELSE LET authors_in_window == AuthorsInWindow(df, order[pos], window_seconds)
         IN IF Cardinality(authors_in_window) >= DEFAULT_MIN_CLUSTER_SIZE
            THEN SynchronizedGroups(df, window_seconds, order, pos + 1,
                    processed_indices \cup WindowComments(df, order[pos], window_seconds),
                    Append(synchronized_groups, authors_in_window))
            ELSE SynchronizedGroups(df, window_seconds, order, pos + 1, processed_indices,
                                    synchronized_groups)

detect_synchronized_posting(df, window_seconds) ==
    merge_overlapping_groups(
        SynchronizedGroups(df, window_seconds, SortedIndex(df), 1, {}, <<>>))

InitSynchronized ==
    /\ comments_df \in SyncCorpora
    /\ called = "none"
    /\ scores = NoResult

DetectSynchronizedPosting ==
    /\ called = "none"
    /\ called' = "detect_synchronized_posting"
    /\ scores' = detect_synchronized_posting(comments_df, DEFAULT_WINDOW_SECONDS)
    /\ UNCHANGED comments_df
    /\ UNCHANGED <<ensembleVars, detectVars, mergeVars, requestVars>>

NextSynchronized == DetectSynchronizedPosting

InitSpecSynchronized == InitSynchronized /\ IdleEnsemble /\ IdleDetect /\ IdleMerge /\ IdleRequest

SpecSynchronized == InitSpecSynchronized /\ [][NextSynchronized]_vars

(* NetworkFeatures.detect_communities and the community columns *)

\* community_louvain.best_partition: some partition of the nodes of G, its
\* communities numbered from 0
LouvainPartitions(G) ==
    {partition \in [G.nodes -> 0..(Cardinality(G.nodes) - 1)] :
        \A c \in 0..(Cardinality(G.nodes) - 1) :
           (\E n \in G.nodes : partition[n] = c) =>
              \A b \in 0..(c - 1) : \E n \in G.nodes : partition[n] = b}

\* the dicts detect_communities can return: {} for a graph without nodes
detect_communities(G) ==
    IF Cardinality(G.nodes) = 0 THEN {<<>>} ELSE LouvainPartitions(G)

NOT_IN_COMMUNITY == -1

\* features['community_id'] = communities.get(author_id, -1)
CommunityId(communities, author_id) ==
    IF author_id \in DOMAIN communities THEN communities[author_id] ELSE NOT_IN_COMMUNITY

CommunitySize(communities, author_id) ==
    IF CommunityId(communities, author_id) # NOT_IN_COMMUNITY
    THEN Cardinality({n \in DOMAIN communities :
                         communities[n] = CommunityId(communities, author_id)})
    ELSE 0

\* calculate_author_network_features, the community columns of every author
\* of comments_df['author_id'].unique()
CalculateAuthorNetworkFeatures ==
    /\ called = "none"
    /\ called' = "calculate_author_network_features"
    /\ \E co_occurrence_net \in {build_co_occurrence_network(comments_df, cfg.MIN_EDGE_WEIGHT)} :
       \E communities \in detect_communities(co_occurrence_net) :
          scores' = [author_id \in AuthorsOf(comments_df) |->
                        [community_id |-> CommunityId(communities, author_id),
                         community_size |-> CommunitySize(communities, author_id)]]
    /\ UNCHANGED comments_df
    /\ UNCHANGED <<ensembleVars, detectVars, mergeVars, requestVars>>

NextCommunity == CalculateAuthorNetworkFeatures

(* the community columns are computed for a corpus of comments on videos *)
InitSpecCommunity == InitNetwork /\ IdleEnsemble /\ IdleMerge /\ IdleRequest

SpecCommunity == InitSpecCommunity /\ [][NextCommunity]_vars

(* NetworkFeatures.build_temporal_network *)

MaxTemporalComments == 4     \* comments of a corpus handed to the sweep

TemporalTimestamps == {0, 3600, 5400}

TemporalCorpora ==
    UNION {[1..n -> [author_id : NetworkAuthorIds, published_at : TemporalTimestamps]] :
              n \in 1..MaxTemporalComments}

TimeWindowHours == {1, 2}

SECONDS_PER_HOUR == 3600

\* the mutation of BeyondWindow that also breaks at exactly the window
BeyondWindowInclusive(seconds, time_window_hours) ==
    seconds >= SECONDS_PER_HOUR * time_window_hours

\* time_diff > time_window_hours, time_diff being total_seconds() / 3600
BeyondWindow(seconds, time_window_hours) ==
    seconds > SECONDS_PER_HOUR * time_window_hours

\* comments_df.sort_values('timestamp'), as the sequence read by iloc
SortedRows(df) == [p \in 1..Len(df) |-> df[SortedIndex(df)[p]]]

\* weight += 1 on an edge the graph has, add_edge(..., weight=1) otherwise;
\* the graph is the function from its edges {a, b} to their weights
AddTemporalEdge(G, a, b) ==
    IF {a, b} \in DOMAIN G
    THEN [G EXCEPT ![{a, b}] = @ + 1]
    ELSE [e \in DOMAIN G \cup {{a, b}} |-> IF e \in DOMAIN G THEN G[e] ELSE 1]

RECURSIVE LookAhead(_, _, _, _, _)
\* the while loop over j from i + 1, left at the first comment beyond the window
LookAhead(rows, i, j, G, time_window_hours) ==
    IF j > Len(rows) THEN G
    ELSE IF BeyondWindow(rows[j].published_at - rows[i].published_at, time_window_hours)
         THEN G
    ELSE LookAhead(rows, i, j + 1,
                   IF rows[i].author_id # rows[j].author_id
                   THEN AddTemporalEdge(G, rows[i].author_id, rows[j].author_id)
                   ELSE G,
                   time_window_hours)

RECURSIVE TemporalSweep(_, _, _, _)
\* the for loop over i
TemporalSweep(rows, i, G, time_window_hours) ==
    IF i > Len(rows) THEN G
    ELSE TemporalSweep(rows, i + 1, LookAhead(rows, i, i + 1, G, time_window_hours),
                       time_window_hours)

EmptyGraph == [e \in {} |-> 0]

build_temporal_network(df, time_window_hours) ==
    TemporalSweep(SortedRows(df), 1, EmptyGraph, time_window_hours)

InitTemporal ==
    /\ comments_df \in TemporalCorpora
    /\ called = "none"
    /\ scores = NoResult

BuildTemporalNetwork ==
    /\ called = "none"
    /\ called' = "build_temporal_network"
    /\ \E time_window_hours \in TimeWindowHours :
          scores' = [time_window_hours |-> time_window_hours,
                     G |-> build_temporal_network(comments_df, time_window_hours)]
    /\ UNCHANGED comments_df
    /\ UNCHANGED <<ensembleVars, detectVars, mergeVars, requestVars>>

NextTemporal == BuildTemporalNetwork

InitSpecTemporal == InitTemporal /\ IdleEnsemble /\ IdleDetect /\ IdleMerge /\ IdleRequest

SpecTemporal == InitSpecTemporal /\ [][NextTemporal]_vars

(* TextFeatures.detect_spam_patterns *)

MaxSpamComments == 2     \* comments of a corpus handed to the spam detection

ASCII_UPPERCASE ==
    <<"A", "B", "C", "D", "E", "F", "G", "H", "I", "J", "K", "L", "M", "N", "O", "P", "Q", "R", "S", "T", "U", "V", "W", "X", "Y", "Z">>

ASCII_LOWERCASE ==
    <<"a", "b", "c", "d", "e", "f", "g", "h", "i", "j", "k", "l", "m", "n", "o", "p", "q", "r", "s", "t", "u", "v", "w", "x", "y", "z">>

ASCII_DIGITS == {"0", "1", "2", "3", "4", "5", "6", "7", "8", "9"}

\* \w over the characters of the texts
SpamWordChars ==
    {ASCII_UPPERCASE[k] : k \in 1..Len(ASCII_UPPERCASE)}
       \cup {ASCII_LOWERCASE[k] : k \in 1..Len(ASCII_LOWERCASE)}
       \cup ASCII_DIGITS \cup {"_"}

\* str.lower() of one character and of a text
LowerChar(ch) ==
    IF \E k \in 1..Len(ASCII_UPPERCASE) : ASCII_UPPERCASE[k] = ch
    THEN ASCII_LOWERCASE[CHOOSE k \in 1..Len(ASCII_UPPERCASE) : ASCII_UPPERCASE[k] = ch]
    ELSE ch

str_lower(text) == [k \in 1..Len(text) |-> LowerChar(text[k])]

\* the alternatives of the four keyword indicators
CALL_TO_ACTION_WORDS ==
    <<<<"c", "l", "i", "c", "k">>,
      <<"s", "u", "b", "s", "c", "r", "i", "b", "e">>,
      <<"f", "o", "l", "l", "o", "w">>,
      <<"c", "h", "e", "c", "k", " ", "o", "u", "t">>,
      <<"v", "i", "s", "i", "t">>>>

GIVEAWAY_WORDS ==
    <<<<"f", "r", "e", "e">>,
      <<"w", "i", "n">>,
      <<"p", "r", "i", "z", "e">>,
      <<"g", "i", "v", "e", "a", "w", "a", "y">>,
      <<"d", "i", "s", "c", "o", "u", "n", "t">>>>

SHORTENER_WORDS ==
    <<<<"b", "i", "t", ".", "l", "y">>,
      <<"t", "i", "n", "y", "u", "r", "l">>,
      <<"g", "o", "o", ".", "g", "l">>,
      <<"s", "h", "o", "r", "t", "u", "r", "l">>>>

MONEY_PHRASES ==
    <<<<"m", "a", "k", "e", " ", "m", "o", "n", "e", "y">>,
      <<"e", "a", "r", "n", " ", "c", "a", "s", "h">>,
      <<"w", "o", "r", "k", " ", "f", "r", "o", "m", " ", "h", "o", "m", "e">>>>

CURRENCY_SIGNS == {"$", "€", "£", "¥", "₹"}

EXCESSIVE_CAPS_RUN == 5
REPETITION_RUN == 5

\* \b at the position before character i: exactly one side is a word character
WordBoundary(text, i) ==
    (i > 1 /\ text[i - 1] \in SpamWordChars) # (i <= Len(text) /\ text[i] \in SpamWordChars)

\* re.search(r'\b(?:w1|w2|...)\b', text)
SearchWords(words, text) ==
    \E w \in 1..Len(words) : \E i \in 1..(Len(text) - Len(words[w]) + 1) :
       /\ SubSeq(text, i, i + Len(words[w]) - 1) = words[w]
       /\ WordBoundary(text, i)
       /\ WordBoundary(text, i + Len(words[w]))

\* re.search(r'[A-Z]{5,}', text)
SearchCapsRun(text) ==
    \E i \in 1..(Len(text) - EXCESSIVE_CAPS_RUN + 1) :
       \A k \in i..(i + EXCESSIVE_CAPS_RUN - 1) :
          \E u \in 1..Len(ASCII_UPPERCASE) : ASCII_UPPERCASE[u] = text[k]

\* re.search(r'(.)\1{4,}', text)
SearchRepetition(text) ==
    \E i \in 1..(Len(text) - REPETITION_RUN + 1) :
       \A k \in i..(i + REPETITION_RUN - 1) : text[k] = text[i]

\* re.search(r'[\$€£¥₹]{1,}[\d,]+', text)
SearchMoney(text) ==
    \E i \in 1..(Len(text) - 1) :
       text[i] \in CURRENCY_SIGNS /\ text[i + 1] \in ASCII_DIGITS \cup {","}

NUM_SPAM_INDICATORS == 7

\* re.search(spam_indicators[p - 1], text)
SearchIndicator(p, text) ==
    CASE p = 1 -> SearchWords(CALL_TO_ACTION_WORDS, text)
      [] p = 2 -> SearchWords(GIVEAWAY_WORDS, text)
      [] p = 3 -> SearchWords(SHORTENER_WORDS, text)
      [] p = 4 -> SearchCapsRun(text)
      [] p = 5 -> SearchRepetition(text)
      [] p = 6 -> SearchMoney(text)
      [] p = 7 -> SearchWords(MONEY_PHRASES, text)

\* the inner loop: text_lower is searched for every pattern until one matches
IsSpam(text) ==
    \E p \in 1..NUM_SPAM_INDICATORS : SearchIndicator(p, str_lower(text))

\* spam_count / max(total_comments, 1) of one author's group
SpamScore(group) ==
    Rat(Cardinality({k \in 1..Len(group) : IsSpam(group[k].text)}), Max2(Len(group), 1))

SpamTexts ==
    {<<"A", "B", "C", "D", "E">>,
     <<"A", "A", "A", "A", "A">>,
     <<"W", "I", "N">>,
     <<"T", "w", "i", "n">>,
     <<"$", "5">>,
     <<"V", "i", "s", "i", "t">>,
     <<"b", "i", "t", ".", "l", "y">>,
     <<"e", "a", "r", "n", " ", "c", "a", "s", "h">>,
     <<"a", "b">>}

SpamCorpora ==
    UNION {[1..n -> [author_id : AuthorIds, text : SpamTexts]] : n \in 1..MaxSpamComments}

InitSpam ==
    /\ comments_df \in SpamCorpora
    /\ called = "none"
    /\ scores = NoResult

DetectSpamPatterns ==
    /\ called = "none"
    /\ called' = "detect_spam_patterns"
    /\ scores' = [a \in AuthorsOf(comments_df) |-> SpamScore(Group(comments_df, a))]
    /\ UNCHANGED comments_df
    /\ UNCHANGED <<ensembleVars, detectVars, mergeVars, requestVars>>

NextSpam == DetectSpamPatterns

InitSpecSpam == InitSpam /\ IdleEnsemble /\ IdleDetect /\ IdleMerge /\ IdleRequest

SpecSpam == InitSpecSpam /\ [][NextSpam]_vars

(* BotDetector.run_full_pipeline: collection, account age, young accounts *)

MaxVideoComments == 2    \* comments the API returns for one video

VIDEO_URLS == <<"v1", "v2">>

CollectionModes == {"urls", "political", "search", "other"}

\* get_video_info / get_channel_info return None when the request fails
None == <<>>

PipelineTimestamps == {0, 2 * SECONDS_PER_DAY}

\* what the API answers for one video: whether its info was fetched, the
\* published_at of its channel if the channel info was fetched, its comments
VideoResponses ==
    [video_info : BOOLEAN,
     channel_info : {None, <<0>>},
     comments : UNION {[1..n -> [author_id : AuthorIds, published_at : PipelineTimestamps]] :
                          n \in 0..MaxVideoComments}]

\* the enrichment written under the name analyze_account_age reads
EnrichCommentAsAuthorChannel(comment, channel_info) ==
    IF channel_info # None
    THEN [c \in DOMAIN comment \cup {"author_channel_created"} |->
            IF c = "author_channel_created" THEN channel_info ELSE comment[c]]
    ELSE comment

\* if channel_info: comment['channel_created_at'] = channel_info['published_at']
EnrichComment(comment, channel_info) ==
    IF channel_info # None
    THEN [c \in DOMAIN comment \cup {"channel_created_at"} |->
            IF c = "channel_created_at" THEN channel_info ELSE comment[c]]
    ELSE comment

RECURSIVE CollectFromUrls(_, _, _)
\* the loop of collect_from_urls: a video without info is skipped, the
\* comments of the others are enriched and appended
CollectFromUrls(video_urls, responses, all_comments) ==
    IF video_urls = <<>> THEN all_comments
    ELSE LET r == responses[Head(video_urls)]
         IN IF ~r.video_info
            THEN CollectFromUrls(Tail(video_urls), responses, all_comments)
            ELSE CollectFromUrls(Tail(video_urls), responses,
                    all_comments \o [k \in 1..Len(r.comments) |->
                                       EnrichComment(r.comments[k], r.channel_info)])

\* pd.DataFrame(all_comments): the columns are the keys of all the dicts, a
\* key a dict lacks is NaN in its row
DataFrame(all_comments) ==
    [k \in 1..Len(all_comments) |->
        [c \in UNION {DOMAIN all_comments[h] : h \in 1..Len(all_comments)} |->
            IF c \in DOMAIN all_comments[k] THEN all_comments[k][c] ELSE NaT]]

InitPipeline ==
    /\ comments_df = NoResult
    /\ called = "run_full_pipeline"
    /\ scores = NoResult
    /\ pc = "idle"
    /\ cfg = NoResult
    /\ features_df = NoResult
    /\ results_df = NoResult
    /\ cluster_bot_scores = NoResult
    /\ cluster_labels = NoResult

\* comments_df = self.collect_data(mode, urls, max_comments); an invalid mode
\* raises ValueError, an empty table ends the run
PipelineCollectData ==
    /\ called = "run_full_pipeline"
    /\ \E mode \in CollectionModes : \E responses \in [{"v1", "v2"} -> VideoResponses] :
          IF mode \notin {"urls", "political", "search"}
          THEN called' = "value_error" /\ UNCHANGED comments_df
          ELSE /\ comments_df' = DataFrame(CollectFromUrls(VIDEO_URLS, responses, <<>>))
               /\ called' = IF comments_df' = <<>> THEN "no_data" ELSE "collect_data"
    /\ UNCHANGED scores
    /\ UNCHANGED <<ensembleVars, detectVars, mergeVars, requestVars>>

\* features_df = self.extract_all_features(comments_df), the account_age_score column
PipelineExtractFeatures ==
    /\ called = "collect_data"
    /\ called' = "extract_all_features"
    /\ features_df' =
          [columns |-> {"account_age_score"},
           rows |-> [a \in AuthorsOf(comments_df) |->
                       [c \in {"account_age_score"} |-> AgeScore(Group(comments_df, a))]]]
    /\ UNCHANGED <<comments_df, scores>>
    /\ UNCHANGED <<pc, cfg, results_df, cluster_bot_scores, cluster_labels>>
    /\ UNCHANGED <<ensembleVars, mergeVars, requestVars>>

\* detect_bots: the indicators of every cluster of the labels the clustering finds
PipelineDetectBots ==
    /\ called = "extract_all_features"
    /\ called' = "detect_bots"
    /\ \E labels \in [DOMAIN features_df.rows -> {NOISE, 0, 1}] :
          /\ cluster_labels' = labels
          /\ cluster_bot_scores' =
                [cluster_id \in ScoredClusterIds(labels) |->
                    BotIndicators(features_df, Members(labels, cluster_id))]
    /\ UNCHANGED <<comments_df, scores>>
    /\ UNCHANGED <<pc, cfg, features_df, results_df>>
    /\ UNCHANGED <<ensembleVars, mergeVars, requestVars>>

NextPipeline ==
    \/ PipelineCollectData
    \/ PipelineExtractFeatures
    \/ PipelineDetectBots

InitSpecPipeline == InitPipeline /\ IdleEnsemble /\ IdleMerge /\ IdleRequest

SpecPipeline == InitSpecPipeline /\ [][NextPipeline]_vars

(* YouTubeAPI._make_request and _rotate_api_key *)

MaxApiKeys == 3          \* keys in Config.YOUTUBE_API_KEYS
MaxApiCalls == 7         \* api_calls_count up to which a new request is started

API_RETRY_COUNT == 3

\* the HTTP statuses of an HttpError: quota exceeded, not found, any other
QUOTA_EXCEEDED == "403"
NOT_FOUND == "404"
SERVER_ERROR == "500"

\* the mutation of RotateIndex that does not wrap around
RotateIndexUnwrapped(index, number_of_keys) == index + 1

\* (self.api_key_index + 1) % len(Config.YOUTUBE_API_KEYS)
RotateIndex(index, number_of_keys) == (index + 1) % number_of_keys

\* the loop position after a failed attempt: the next iteration, or the
\* return None behind the loop when range(API_RETRY_COUNT) is exhausted
AfterFailure(attempts) == IF attempts < API_RETRY_COUNT THEN "loop" ELSE "returned"

\* YouTubeAPI.__init__ with a validated Config: at least one key
InitRequest ==
    /\ num_api_keys \in 1..MaxApiKeys
    /\ api_key_index = 0
    /\ api_calls_count = 0
    /\ attempt = 0
    /\ status = "none"
    /\ result = NoResult
    /\ calls_at_entry = 0
    /\ r_pc = "ready"

\* a caller enters _make_request
MakeRequest ==
    /\ r_pc \in {"ready", "returned"}
    /\ api_calls_count + API_RETRY_COUNT <= MaxApiCalls
    /\ r_pc' = "loop"
    /\ attempt' = 0
    /\ status' = "none"
    /\ result' = NoResult
    /\ calls_at_entry' = api_calls_count
    /\ UNCHANGED <<num_api_keys, api_key_index, api_calls_count>>
    /\ UNCHANGED <<ensembleVars, detectVars, authorVars, mergeVars>>

\* an iteration whose execute() returns: return result
AttemptSucceeds ==
    /\ r_pc = "loop"
    /\ api_calls_count' = api_calls_count + 1
    /\ attempt' = attempt + 1
    /\ status' = "ok"
    /\ result' = <<"result">>
    /\ r_pc' = "returned"
    /\ UNCHANGED <<num_api_keys, api_key_index, calls_at_entry>>
    /\ UNCHANGED <<ensembleVars, detectVars, authorVars, mergeVars>>

\* HttpError 403: self._rotate_api_key(), sleep, next iteration
AttemptQuotaExceeded ==
    /\ r_pc = "loop"
    /\ api_calls_count' = api_calls_count + 1
    /\ attempt' = attempt + 1
    /\ status' = QUOTA_EXCEEDED
    /\ api_key_index' = RotateIndex(api_key_index, num_api_keys)
    /\ r_pc' = AfterFailure(attempt')
    /\ result' = IF r_pc' = "returned" THEN None ELSE result
    /\ UNCHANGED <<num_api_keys, calls_at_entry>>
    /\ UNCHANGED <<ensembleVars, detectVars, authorVars, mergeVars>>

\* HttpError 404: return None
AttemptNotFound ==
    /\ r_pc = "loop"
    /\ api_calls_count' = api_calls_count + 1
    /\ attempt' = attempt + 1
    /\ status' = NOT_FOUND
    /\ result' = None
    /\ r_pc' = "returned"
    /\ UNCHANGED <<num_api_keys, api_key_index, calls_at_entry>>
    /\ UNCHANGED <<ensembleVars, detectVars, authorVars, mergeVars>>

\* any other HttpError, or any other Exception: log, sleep, next iteration
AttemptFails ==
    /\ r_pc = "loop"
    /\ api_calls_count' = api_calls_count + 1
    /\ attempt' = attempt + 1
    /\ status' \in {SERVER_ERROR, "exception"}
    /\ r_pc' = AfterFailure(attempt')
    /\ result' = IF r_pc' = "returned" THEN None ELSE result
    /\ UNCHANGED <<num_api_keys, api_key_index, calls_at_entry>>
    /\ UNCHANGED <<ensembleVars, detectVars, authorVars, mergeVars>>

\* one iteration of for attempt in range(Config.API_RETRY_COUNT)
Attempt ==
    \/ AttemptSucceeds
    \/ AttemptQuotaExceeded
    \/ AttemptNotFound
    \/ AttemptFails

NextRequest == MakeRequest \/ Attempt

InitSpecRequest == InitRequest /\ IdleEnsemble /\ IdleDetect /\ IdleAuthor /\ IdleMerge

\* a call that has been entered keeps running: the loop body has no blocking
\* step other than the request and time.sleep
SpecRequest == InitSpecRequest /\ [][NextRequest]_vars /\ WF_vars(Attempt)

(* A list of synchronized groups is merged, and the result merged once more *)
InitSpecMerge == InitMerge /\ IdleEnsemble /\ IdleDetect /\ IdleAuthor /\ IdleRequest

SpecMerge == InitSpecMerge /\ [][NextMerge]_vars

(* Config is imported and validated, then detect_bots is called on a feature table *)
Init == InitDetect /\ IdleEnsemble /\ IdleAuthor /\ IdleMerge /\ IdleRequest

Spec == Init /\ [][NextDetect]_vars

-----------------------------------------------------------------------------
(* Properties of detect_bots and of the configuration check (Spec) *)

Scored == pc \in {"scored", "done", "cut_error"}

\* C1: every author's final_bot_probability lies in [0, 1], for every non-empty
\* feature table whose score columns are in [0, 1] and whose comment rate is >= 0.
C1_FinalProbabilityInUnitInterval ==
    Scored =>
        \A i \in Authors :
            /\ 0 <= results_df[i].final_bot_probability[1]
            /\ results_df[i].final_bot_probability[1] <= results_df[i].final_bot_probability[2]

C1_Witness ==
    /\ Scored
    /\ features_df.columns = AllColumns
    /\ \E i \in Authors :
          /\ results_df[i].cluster_id # NOISE
          /\ RLt(ROne, features_df.rows[i]["comments_per_hour"])
          /\ results_df[i].final_bot_probability = ROne

\* The label the claimed bucketing gives to probability p under thresholds of c
ClaimedBucket(c, p) ==
    IF RLe(p, c.SUSPICIOUS_PROBABILITY_THRESHOLD) THEN "likely_human"
    ELSE IF RLe(p, c.BOT_PROBABILITY_THRESHOLD) THEN "suspicious"
    ELSE "likely_bot"

\* C2: once detect_bots has returned, every author carries exactly the label of
\* the three-way bucketing of its final probability: p <= suspicious threshold
\* gives likely_human, suspicious < p <= bot gives suspicious, p > bot gives
\* likely_bot, over the whole of [0, 1], p = 0 and p = 1 included.
C2_ClassificationTotalBucketing ==
    pc = "done" =>
        \A i \in Authors :
            results_df[i].classification = ClaimedBucket(cfg, results_df[i].final_bot_probability)

\* The configurations the claim calls invalid
ConfigInvalid(c) ==
    \/ ~InUnitInterval(c.SUSPICIOUS_PROBABILITY_THRESHOLD)
    \/ ~InUnitInterval(c.BOT_PROBABILITY_THRESHOLD)
    \/ RLe(c.BOT_PROBABILITY_THRESHOLD, c.SUSPICIOUS_PROBABILITY_THRESHOLD)

\* C4: with a threshold outside [0, 1] or with suspicious >= bot, the import
\* raises and no clustering, scoring or classification step is ever reached.
C4_InvalidConfigFailsFast ==
    ConfigInvalid(cfg) => pc \in {"import", "config_error"}

\* C5: final_bot_probability = 0.6 * cluster score + 0.4 * individual score, the
\* cluster score being the entry of the author's cluster in cluster_bot_scores,
\* and 0 for cluster_id -1 or a cluster without an entry.
C5_FinalIsWeightedFusion ==
    Scored =>
        \A i \in Authors :
            LET r == results_df[i]
                cs == IF r.cluster_id # NOISE /\ r.cluster_id \in DOMAIN cluster_bot_scores
                      THEN cluster_bot_scores[r.cluster_id]
                      ELSE RZero
                ind == r.individual_bot_probability
                p == r.final_bot_probability
            IN  \* p = 3/5 * cs + 2/5 * ind, cross-multiplied
                5 * p[1] * cs[2] * ind[2] = p[2] * (3 * cs[1] * ind[2] + 2 * ind[1] * cs[2])

C5_Witness ==
    /\ Scored
    /\ \E i \in Authors :
          /\ results_df[i].cluster_id = NOISE
          /\ results_df[i].cluster_bot_probability = RZero
          /\ RLt(RZero, results_df[i].individual_bot_probability)

C5_WitnessAssigned ==
    /\ Scored
    /\ \E i \in Authors :
          /\ results_df[i].cluster_id # NOISE
          /\ RLt(RZero, results_df[i].cluster_bot_probability)
          /\ RLt(RZero, results_df[i].individual_bot_probability)
          /\ results_df[i].cluster_bot_probability # results_df[i].individual_bot_probability

-----------------------------------------------------------------------------
(* Properties of ensemble_clustering (SpecEnsemble) *)

\* C3: when all six battery runs failed, ensemble_clustering returns label -1
\* and confidence 0 for every author.
C3_DegenerateReturnsUnassigned ==
    (e_pc = "returned" /\ clusterings = <<>>) =>
        \A i \in Authors :
            /\ consensus_labels[i] = NOISE
            /\ confidence_scores[i] = RZero

\* C10: the consensus matrix is symmetric and its diagonal is 0, whatever the
\* number of successful battery runs accumulated into it.
C10_ConsensusSymmetricZeroDiagonal ==
    (e_pc = "returned" /\ clusterings # <<>>) =>
        \A i, j \in Authors :
            /\ consensus_matrix[i][j] = consensus_matrix[j][i]
            /\ consensus_matrix[i][i] = RZero

C10_Witness ==
    /\ e_pc = "returned"
    /\ Len(clusterings) = Len(HDBSCAN_MIN_SIZES) + Len(DBSCAN_EPS)
    /\ \E i, j \in Authors : i # j /\ RLt(RZero, consensus_matrix[i][j])
    /\ \E i, j \in Authors : i # j /\ consensus_matrix[i][j] = RZero

-----------------------------------------------------------------------------
(* Authors with exactly one comment *)

SingleCommentAuthors ==
    {a \in AuthorsOf(comments_df) : Len(Group(comments_df, a)) = 1}

OnlyTimestamp(a) == Group(comments_df, a)[1].published_at

C7_SingleCommentNeutralScores ==
    \A a \in (IF called \in {"none", "idle"} THEN {} ELSE SingleCommentAuthors) :
        /\ called = "extract_burst_patterns" => scores[a] = RZero
        /\ called = "calculate_posting_regularity" => scores[a] = RealOfRat(RZero)
        /\ called = "calculate_comment_diversity" => scores[a] = ROne

\* the diversity of a single-comment author is 1.0 while an author with two comments
\* in the same corpus has another diversity
C7_Witness ==
    /\ called = "calculate_comment_diversity"
    /\ \E a \in SingleCommentAuthors : scores[a] = ROne
    /\ \E b \in AuthorsOf(comments_df) :
          /\ Len(Group(comments_df, b)) >= 2
          /\ scores[b] # ROne

\* C8: _merge_overlapping_groups is idempotent, merge(merge(G)) = merge(G) for every
\* list G of author sets.
C8_MergeIdempotent ==
    m_pc = "remerged" => remerged_groups = merged_groups

\* C9: the groups returned by _merge_overlapping_groups are pairwise disjoint, no
\* author appears in two output groups.
C9_MergedGroupsPairwiseDisjoint ==
    m_pc \in {"merged", "remerged"} =>
        \A i, j \in 1..Len(merged_groups) :
            i # j => merged_groups[i] \cap merged_groups[j] = {}

-----------------------------------------------------------------------------
(* The consensus matrix and the confidence (SpecEnsemble) *)

ConsensusReturned == e_pc = "returned" /\ clusterings # <<>>

\* the orders in which the pairs of authors can be visited
PairOrders ==
    {o \in [1..Cardinality(AuthorPairs) -> AuthorPairs] :
        \A a, b \in 1..Cardinality(AuthorPairs) : a # b => o[a] # o[b]}

\* for every label vector a run can return: visiting the pairs in any order gives
\* the matrix of the code's order
PairOrderIndependent ==
    \A l \in LabelVectors(MIN_SAMPLES) :
        \A o \in PairOrders :
            AccumulatePairsInOrder(ZeroMatrix, l, o) = AccumulateRun(ZeroMatrix, l)

SwapAdjacent(cl, k) ==
    [h \in 1..Len(cl) |-> IF h = k THEN cl[k + 1] ELSE IF h = k + 1 THEN cl[k] ELSE cl[h]]

Reverse(cl) == [h \in 1..Len(cl) |-> cl[Len(cl) + 1 - h]]

\* the run list with two neighbours exchanged (every order is a chain of these),
\* and the list reversed
RunReorderings(cl) == {SwapAdjacent(cl, k) : k \in 1..(Len(cl) - 1)} \cup {Reverse(cl)}

\* C16: the consensus matrix does not depend on the accumulation order: the runs
\* processed in another order, and the author pairs of a run visited in any order,
\* give the same matrix entry by entry.
C16_ConsensusOrderIndependent ==
    ConsensusReturned =>
        /\ \A cl \in RunReorderings(clusterings) : ConsensusOf(cl) = consensus_matrix
        /\ PairOrderIndependent

\* several different runs succeeded and the matrix has an entry strictly between 0 and 1
C16_Witness ==
    /\ ConsensusReturned
    /\ Len(clusterings) >= 3
    /\ \E a, b \in 1..Len(clusterings) : clusterings[a] # clusterings[b]
    /\ \E i, j \in Authors :
          RLt(RZero, consensus_matrix[i][j]) /\ RLt(consensus_matrix[i][j], ROne)

\* number of successful runs that gave i and j the same label other than -1
CoClusteredRuns(i, j) ==
    Cardinality({k \in 1..Len(clusterings) :
                    clusterings[k][i] = clusterings[k][j] /\ clusterings[k][i] # -1})

\* C17: each entry for distinct authors i, j is the number of successful runs that
\* put i and j in the same non-noise cluster divided by the number of successful
\* runs (failed runs count in neither), and lies in [0, 1].
C17_ConsensusEntryIsFraction ==
    ConsensusReturned =>
        \A i, j \in Authors :
            i # j =>
                /\ consensus_matrix[i][j][1] * Len(clusterings)
                       = CoClusteredRuns(i, j) * consensus_matrix[i][j][2]
                /\ 0 <= consensus_matrix[i][j][1]
                /\ consensus_matrix[i][j][1] <= consensus_matrix[i][j][2]

\* some runs failed, and a pair was co-clustered by every run that succeeded
C17_Witness ==
    /\ ConsensusReturned
    /\ Len(clusterings) < Len(HDBSCAN_MIN_SIZES) + Len(DBSCAN_EPS)
    /\ Len(clusterings) >= 2
    /\ \E i, j \in Authors : i # j /\ consensus_matrix[i][j] = ROne
    /\ \E i, j \in Authors : i # j /\ consensus_matrix[i][j] = RZero

Peers(i) == {k \in Authors : k # i /\ consensus_labels[k] = consensus_labels[i]}

\* C18: the confidence of an author in a final cluster is the mean of the consensus
\* values between the author and the other members of its cluster, the author
\* itself left out; the confidence of an author labelled -1 is 0.
C18_ConfidenceIsMeanOverPeers ==
    ConsensusReturned =>
        \A i \in Authors :
            IF consensus_labels[i] = -1
            THEN confidence_scores[i] = RZero
            ELSE Peers(i) # {} =>
                    confidence_scores[i] =
                        RDivInt(RSum([k \in Authors |->
                                        IF k \in Peers(i) THEN consensus_matrix[i][k] ELSE RZero]),
                                Cardinality(Peers(i)))

-----------------------------------------------------------------------------
(* The individual score and the cluster scores (Spec) *)

WeightedFeatureNames ==
    <<"burst_score", "template_score", "co_degree_centrality", "account_age_score",
      "username_pattern_score", "comments_per_hour">>

\* the configured weights, in hundredths
ClaimedWeight(f) ==
    CASE f = "burst_score" -> 25
      [] f = "template_score" -> 20
      [] f = "co_degree_centrality" -> 20
      [] f = "account_age_score" -> 15
      [] f = "username_pattern_score" -> 10
      [] f = "comments_per_hour" -> 10

ClaimedValue(row, f) ==
    CASE f = "account_age_score" -> RSub(ROne, row[f])
      [] f = "comments_per_hour" ->
            IF RLt(row[f], <<10, 1>>) THEN Rat(row[f][1], row[f][2] * 10) ELSE ROne
      [] OTHER -> row[f]

ClaimedIndividualScore(columns, row) ==
    LET n == Len(WeightedFeatureNames)
        present(k) == WeightedFeatureNames[k] \in columns
        total == IntSum([k \in 1..n |->
                            IF present(k) THEN ClaimedWeight(WeightedFeatureNames[k]) ELSE 0])
        weighted == RSum([k \in 1..n |->
                            IF present(k)
                            THEN RMul(<<ClaimedWeight(WeightedFeatureNames[k]), 1>>,
                                      ClaimedValue(row, WeightedFeatureNames[k]))
                            ELSE RZero])
    IN IF total = 0 THEN RZero ELSE Rat(weighted[1], weighted[2] * total)

ClusterScored == pc \in {"cluster_scores", "scored", "done", "cut_error"}

IndicatorColumns ==
    <<"automation_score", "username_pattern_score", "targeting_score", "template_score">>

ClaimedClusterScore(df, labels, c) ==
    LET mem == {i \in Authors : labels[i] = c}
        size == Cardinality(mem)
        n == Len(IndicatorColumns)
        MeanOf(f) == RDivInt(RSum([k \in Authors |->
                                     IF k \in mem THEN df.rows[k][f] ELSE RZero]), size)
        means == RSum([k \in 1..n |->
                         IF IndicatorColumns[k] \in df.columns
                         THEN MeanOf(IndicatorColumns[k]) ELSE RZero])
        has_rate == "comments_per_hour" \in df.columns
        has_age == "account_age_score" \in df.columns
        high_rate == Rat(Cardinality({i \in mem :
                            RLt(<<10, 1>>, df.rows[i]["comments_per_hour"])}), size)
        young == Rat(Cardinality({i \in mem :
                            RLt(df.rows[i]["account_age_score"], <<3, 10>>)}), size)
        count == Cardinality({k \in 1..n : IndicatorColumns[k] \in df.columns})
                 + (IF has_rate THEN 1 ELSE 0) + (IF has_age THEN 1 ELSE 0)
        total == RAdd(means, RAdd(IF has_rate THEN high_rate ELSE RZero,
                                  IF has_age THEN young ELSE RZero))
    IN IF count = 0 THEN RZero ELSE RDivInt(total, count)

\* C20: identify_bot_clusters returns one score for every cluster id other than -1
\* in the labels and none for -1; the score is the mean of the available indicators
\* (the cluster's means of the four indicator columns, the fraction of its members
\* above the suspicious comment rate, the fraction with account-age score below
\* 0.3), over the cluster's members only, and 0.0 when no indicator is available.
C20_ClusterScoresPerCluster ==
    ClusterScored =>
        /\ DOMAIN cluster_bot_scores = {cluster_labels[i] : i \in Authors} \ {-1}
        /\ \A c \in DOMAIN cluster_bot_scores :
              cluster_bot_scores[c] = ClaimedClusterScore(features_df, cluster_labels, c)

\* a cluster of some authors, another author left out whose row differs from theirs
C20_Witness ==
    /\ pc = "cluster_scores"
    /\ features_df.columns = AllColumns
    /\ \E i, k \in Authors :
          /\ cluster_labels[i] = 0
          /\ cluster_labels[k] = -1
          /\ features_df.rows[i] # features_df.rows[k]
          /\ RLt(RZero, cluster_bot_scores[0])
          /\ RLt(cluster_bot_scores[0], ROne)

-----------------------------------------------------------------------------
(* The account-age score (SpecAge) *)

CreationKnown(a) ==
    /\ "author_channel_created" \in DOMAIN Group(comments_df, a)[1]
    /\ Group(comments_df, a)[1].author_channel_created # <<>>

\* seconds from the channel's creation to the author's first comment
ElapsedSeconds(a) ==
    LET times == {Group(comments_df, a)[k].published_at : k \in 1..Len(Group(comments_df, a))}
        first == CHOOSE t \in times : \A u \in times : t <= u
    IN first - Group(comments_df, a)[1].author_channel_created[1]

\* C14: the account-age score is in [0, 1]; it is 0 when channel creation and
\* first comment share the timestamp, 1 when the gap exceeds 30 days, the whole
\* elapsed days / 30 in between, and 0.5 when the creation date is unknown or the
\* elapsed time is negative.
C14_AccountAgeScore ==
    called = "analyze_account_age" =>
        \A a \in AuthorsOf(comments_df) :
            /\ 0 <= scores[a][1] /\ scores[a][1] <= scores[a][2]
            /\ ~CreationKnown(a) => scores[a] = <<1, 2>>
            /\ CreationKnown(a) =>
                  /\ ElapsedSeconds(a) < 0 => scores[a] = <<1, 2>>
                  /\ ElapsedSeconds(a) = 0 => scores[a] = <<0, 1>>
                  /\ ElapsedSeconds(a) > 30 * 86400 => scores[a] = <<1, 1>>
                  /\ (0 <= ElapsedSeconds(a) /\ ElapsedSeconds(a) <= 30 * 86400) =>
                        scores[a][1] * 30 = (ElapsedSeconds(a) \div 86400) * scores[a][2]

\* one author commented first at the moment of the channel's creation, another more
\* than 30 days after it
C14_Witness ==
    /\ called = "analyze_account_age"
    /\ \E a, b \in AuthorsOf(comments_df) :
          /\ CreationKnown(a) /\ ElapsedSeconds(a) = 0 /\ scores[a] = <<0, 1>>
          /\ CreationKnown(b) /\ ElapsedSeconds(b) > 30 * 86400 /\ scores[b] = <<1, 1>>

-----------------------------------------------------------------------------
(* Properties of the co-occurrence network (SpecNetwork) *)

NetworkBuilt == called = "build_co_occurrence_network"

\* the distinct videos on which both authors commented
SharedVideos(a, b) ==
    {v \in VideoIds :
        /\ \E k \in 1..Len(comments_df) :
              comments_df[k].author_id = a /\ comments_df[k].video_id = v
        /\ \E k \in 1..Len(comments_df) :
              comments_df[k].author_id = b /\ comments_df[k].video_id = v}

\* C12: the weight computed for a pair of distinct authors is the number of
\* distinct videos on which both commented; the pair is an edge of the graph
\* exactly when that number reaches MIN_EDGE_WEIGHT; with MIN_EDGE_WEIGHT = 1
\* the authors of one video are pairwise adjacent
C12_EdgeWeightCountsSharedVideos ==
    NetworkBuilt =>
        /\ \A a \in NetworkAuthorIds : \A b \in NetworkAuthorIds \ {a} :
              LET shared == Cardinality(SharedVideos(a, b))
              IN /\ IF {a, b} \in DOMAIN scores.edge_weights
                    THEN scores.edge_weights[{a, b}] = shared
                    ELSE shared = 0
                 /\ {a, b} \in scores.edges <=> shared >= cfg.MIN_EDGE_WEIGHT
                 /\ {a, b} \in scores.edges => scores.weight[{a, b}] = shared
        /\ cfg.MIN_EDGE_WEIGHT = 1 =>
              \A v \in VideosOf(comments_df) :
                 \A a \in UniqueAuthors(comments_df, v) :
                    \A b \in UniqueAuthors(comments_df, v) \ {a} :
                       {a, b} \in scores.edges

\* every author of the corpus commented on one video, one of them twice there,
\* and under MIN_EDGE_WEIGHT = 1 they form a clique of weight-1 edges
C12_Witness ==
    /\ NetworkBuilt
    /\ cfg.MIN_EDGE_WEIGHT = 1
    /\ \E v \in VideoIds :
          /\ UniqueAuthors(comments_df, v) = NetworkAuthorIds
          /\ Cardinality({k \in 1..Len(comments_df) : comments_df[k].video_id = v})
                > Cardinality(NetworkAuthorIds)
    /\ scores.edges = PairsOf(NetworkAuthorIds)
    /\ \A e \in scores.edges : scores.weight[e] = 1

\* under the default MIN_EDGE_WEIGHT a pair sharing both videos is an edge of
\* weight 2 and a pair sharing one video is not an edge
C12_WitnessPruned ==
    /\ NetworkBuilt
    /\ cfg.MIN_EDGE_WEIGHT = DEFAULT_MIN_EDGE_WEIGHT
    /\ \E e \in scores.edges : scores.weight[e] = 2

-----------------------------------------------------------------------------
(* Properties of the text similarity matrix (SpecSimilarity) *)

SimilarityReturned == called = "extract_text_similarity_matrix"

CleanedText(k) == clean_text(comments_df[k].text)

\* C11: two comments whose cleaned text is identical have similarity exactly 1
\* in the returned matrix, on the cosine path and on the edit-distance path,
\* also when the cleaned text is empty or holds only stop words
C11_IdenticalCleanedTextSimilarityOne ==
    SimilarityReturned =>
        \A i \in 1..Len(comments_df) : \A j \in (1..Len(comments_df)) \ {i} :
            CleanedText(i) = CleanedText(j) => scores[i][j].value = ROne

\* on the cosine path, two comments of the same cleaned text that holds a
\* vocabulary term have similarity 1, and so have two comments of the same
\* cleaned text on the edit-distance path
C11_IdenticalCleanedTextWithTermsSimilarityOne ==
    SimilarityReturned =>
        \A i \in 1..Len(comments_df) : \A j \in (1..Len(comments_df)) \ {i} :
            /\ CleanedText(i) = CleanedText(j)
            /\ scores[i][j].kind = "cosine" => Analyze(CleanedText(i)) # <<>>
            => scores[i][j].value = ROne

\* two stop-word-only or empty comments of the same cleaned text beside a
\* comment that holds a term: the cosine path returns 0 for the pair
C11_ZeroVectorPair ==
    /\ SimilarityReturned
    /\ \E i \in 1..Len(comments_df) : \E j \in (1..Len(comments_df)) \ {i} :
          /\ CleanedText(i) = CleanedText(j)
          /\ comments_df[i].text = comments_df[j].text
          /\ scores[i][j] = [kind |-> "cosine", value |-> RZero]

-----------------------------------------------------------------------------
(* Properties of the aggregated feature table (SpecFeatures) *)

FeaturesReturned == called = "extract_all_features"

\* C15: the table returned by extract_all_features has exactly one row for
\* every author_id of the corpus and no row for any other id, no cell of it
\* is missing, and a column that two extractor frames carry holds the value of
\* the frame merged first
C15_OneCompleteRowPerAuthor ==
    FeaturesReturned =>
        /\ \A a \in AuthorsOf(comments_df) :
              Cardinality({k \in 1..Len(scores) : scores[k].author_id = a}) = 1
        /\ \A k \in 1..Len(scores) : scores[k].author_id \in AuthorsOf(comments_df)
        /\ \A k \in 1..Len(scores) :
              /\ DOMAIN scores[k].cells =
                    {<<"comment_count">>, <<"burst_score">>, <<"std_comment_length">>,
                     <<"total_comments">>, <<"diversity_score">>, <<"co_degree">>,
                     <<"account_age_score">>}
              /\ \A c \in DOMAIN scores[k].cells : scores[k].cells[c].value # NaN
              /\ scores[k].cells[<<"total_comments">>].frame = "linguistic_df"

\* two authors, met in the corpus in the reverse of their sorted order, each
\* with one comment: the standard deviation of the comment length was missing
\* and is 0 in the table
C15_Witness ==
    /\ FeaturesReturned
    /\ Len(comments_df) = 2
    /\ comments_df[1].author_id = "UC_b"
    /\ comments_df[2].author_id = "UC_a"
    /\ Len(scores) = 2
    /\ \A k \in 1..Len(scores) :
          scores[k].cells[<<"std_comment_length">>] = Cell(RZero, "linguistic_df")

-----------------------------------------------------------------------------
(* Properties of the pipeline on the coordinated burst (SpecScenario) *)

ScenarioScored == pc = "scored"

\* C13: five distinct authors each post once on the same video within one
\* minute with near-identical text; under the shipped configuration every one
\* of the five gets a final_bot_probability above the suspicious threshold
C13_CoordinatedBurstAllSuspicious ==
    ScenarioScored =>
        \A i \in ScenarioRows :
            RLt(cfg.SUSPICIOUS_PROBABILITY_THRESHOLD, results_df[i].final_bot_probability)

\* the five authors have ordinary names and no channel data, and the five are
\* labelled as one cluster: no final probability reaches the threshold
C13_PlainAuthorsBelowThreshold ==
    /\ ScenarioScored
    /\ \A i \in ScenarioRows :
          /\ comments_df[i].author = PlainUsername(i)
          /\ cluster_labels[i] = 0
          /\ features_df.rows[i]["template_score"] = ROne
          /\ features_df.rows[i]["co_degree_centrality"] = RZero
          /\ RLt(results_df[i].final_bot_probability, cfg.SUSPICIOUS_PROBABILITY_THRESHOLD)

\* the five authors have generated names and channels created on the day of
\* the comment, and the five are labelled as one cluster: every final
\* probability is above the threshold
C13_GeneratedAuthorsAboveThreshold ==
    /\ ScenarioScored
    /\ \A i \in ScenarioRows :
          /\ comments_df[i].author = GeneratedUsername
          /\ cluster_labels[i] = 0
          /\ RLt(cfg.SUSPICIOUS_PROBABILITY_THRESHOLD, results_df[i].final_bot_probability)

-----------------------------------------------------------------------------
(* Properties of the template score (SpecTemplate) *)

TemplateReturned == called = "detect_template_comments"

\* comment k has another comment of the corpus with similarity above the threshold
HasDuplicate(k) ==
    \E j \in (1..Len(comments_df)) \ {k} :
        LET entry == extract_text_similarity_matrix(comments_df)[k][j]
        IN entry # Oblique /\ RLt(SIMILARITY_THRESHOLD, entry.value)

OwnComments(a) == {k \in 1..Len(comments_df) : comments_df[k].author_id = a}

\* C21: the template score of an author is the fraction of the author's
\* comments that have at least one other comment of the corpus with
\* similarity above the threshold, whatever else the corpus holds
C21_TemplateScoreIsFractionWithDuplicate ==
    TemplateReturned =>
        \A a \in AuthorsOf(comments_df) :
            scores[a] = Rat(Cardinality({k \in OwnComments(a) : HasDuplicate(k)}),
                            Cardinality(OwnComments(a)))

\* every comment of an author has a duplicate elsewhere in a corpus that also
\* holds an unrelated comment, and the author's score is below 1
C21_DilutedByUnrelatedComments ==
    /\ TemplateReturned
    /\ \E a \in AuthorsOf(comments_df) :
          /\ \A k \in OwnComments(a) : HasDuplicate(k)
          /\ \E j \in 1..Len(comments_df) : ~HasDuplicate(j)
          /\ RLt(scores[a], ROne)

-----------------------------------------------------------------------------
(* Properties of the posting regularity (SpecAuthor) *)

RegularityReturned == called = "calculate_posting_regularity"

\* the inter-comment intervals of an author, in seconds, in time order
IntervalsOf(a) == Diff(SortedTimes(Group(comments_df, a)))

MeanInterval(a) == Rat(IntSum(IntervalsOf(a)), Len(IntervalsOf(a)))

\* the squared coefficient of variation: the mean squared deviation from the
\* mean interval, over the squared mean interval
SquaredCV(a) ==
    LET x == IntervalsOf(a)
        deviation(k) == RSub(Rat(x[k], 1), MeanInterval(a))
        variance == RDivInt(RSum([k \in 1..Len(x) |-> RMul(deviation(k), deviation(k))]),
                            Len(x))
    IN RDiv(variance, RMul(MeanInterval(a), MeanInterval(a)))

\* score is 1 / (1 + CV): a rational score q has (1/q - 1)^2 = CV^2, another
\* score is kept as 1 / (1 + sqrt(CV^2))
IsOneOverOnePlusCV(score, a) ==
    IF score.c = RZero
    THEN /\ RLt(RZero, score.q)
         /\ LET cv == RSub(RDiv(ROne, score.q), ROne)
            IN RLe(RZero, cv) /\ RMul(cv, cv) = SquaredCV(a)
    ELSE score = [q |-> RZero, c |-> ROne, r |-> SquaredCV(a)]

\* C22, amended: calculate_posting_regularity returns 1 / (1 + CV) of the
\* inter-comment intervals for every author with at least 3 comments and a
\* non-zero mean interval, and 0.0 for every author with fewer than 3 comments
\* or a zero mean interval, an author with exactly two comments included
C22_RegularityFromThreeComments ==
    RegularityReturned =>
        \A a \in AuthorsOf(comments_df) :
            IF Len(Group(comments_df, a)) >= 3 /\ IntSum(IntervalsOf(a)) > 0
            THEN IsOneOverOnePlusCV(scores[a], a)
            ELSE scores[a] = RealOfRat(RZero)

\* an author with three comments at 0, 45 and 240 seconds, whose regularity is
\* 1 / (1 + sqrt(25/64)) = 8/13
C22_Witness ==
    /\ RegularityReturned
    /\ \E a \in AuthorsOf(comments_df) :
          /\ SortedTimes(Group(comments_df, a)) = <<0, 45, 240>>
          /\ scores[a] = RealOfRat(<<8, 13>>)

\* C22 as stated: 1 / (1 + CV) for every author with at least 2 comments and
\* a non-zero mean interval, hence 1.0 for two comments at different times,
\* and 0.0 only below 2 comments or at a zero mean interval
C22_RegularityFromTwoComments ==
    RegularityReturned =>
        \A a \in AuthorsOf(comments_df) :
            IF Len(Group(comments_df, a)) >= 2 /\ IntSum(IntervalsOf(a)) > 0
            THEN IsOneOverOnePlusCV(scores[a], a)
            ELSE scores[a] = RealOfRat(RZero)

-----------------------------------------------------------------------------
(* Properties of the duplicate groups (SpecDuplicates) *)

DuplicatesReturned == called = "find_duplicate_comments"

NearDuplicate(i, j) ==
    /\ i # j
    /\ RLt(<<9, 10>>, EditSimilarity(comments_df[i].text, comments_df[j].text))

RECURSIVE ConnectedTo(_)
\* the comments linked to one of S by a chain of near-duplicates
ConnectedTo(S) ==
    LET T == S \cup {j \in 1..Len(comments_df) : \E i \in S : NearDuplicate(i, j)}
    IN IF T = S THEN S ELSE ConnectedTo(T)

NearGroupSet == {scores.near_groups[k] : k \in 1..Len(scores.near_groups)}

\* C23: the near-duplicate groups returned are the connected components, of
\* more than one comment, of the relation edit-similarity > 0.9, and no
\* comment id is in two of them
C23_NearGroupsAreConnectedComponents ==
    DuplicatesReturned =>
        /\ NearGroupSet =
              {c \in {ConnectedTo({k}) : k \in 1..Len(comments_df)} : Cardinality(c) > 1}
        /\ \A g \in 1..Len(scores.near_groups) : \A h \in 1..Len(scores.near_groups) :
              g # h => scores.near_groups[g] \cap scores.near_groups[h] = {}

\* every near-duplicate group holds its first comment and comments similar to
\* that one, and no comment id is in two near-duplicate groups
C23_NearGroupsAreAnchorNeighbourhoods ==
    DuplicatesReturned =>
        /\ \A g \in NearGroupSet :
              \E anchor \in g :
                 \A k \in g \ {anchor} : anchor < k /\ NearDuplicate(anchor, k)
        /\ \A g \in 1..Len(scores.near_groups) : \A h \in 1..Len(scores.near_groups) :
              g # h => scores.near_groups[g] \cap scores.near_groups[h] = {}

\* a chain A ~ B ~ C with A and C not similar, A first: C is in no group
C23_ChainSplit ==
    /\ DuplicatesReturned
    /\ Len(comments_df) = 3
    /\ NearDuplicate(1, 3) /\ NearDuplicate(3, 2) /\ ~NearDuplicate(1, 2)
    /\ scores.near_groups = <<{1, 3}>>

-----------------------------------------------------------------------------
(* Properties of the synchronized groups (SpecSynchronized) *)

SynchronizedReturned == called = "detect_synchronized_posting"

WindowAuthorsOf(c) ==
    {comments_df[k].author_id : k \in
        {k \in 1..Len(comments_df) :
            /\ comments_df[k].published_at >= comments_df[c].published_at
            /\ comments_df[k].published_at <= comments_df[c].published_at + 300}}

\* C24: for every comment c whose window [time(c), time(c) + window_seconds]
\* holds comments of at least MIN_CLUSTER_SIZE distinct authors, one of the
\* returned groups contains all the authors of that window
C24_EveryFullWindowIsReported ==
    SynchronizedReturned =>
        \A c \in 1..Len(comments_df) :
           Cardinality(WindowAuthorsOf(c)) >= 3 =>
              \E g \in 1..Len(scores) : WindowAuthorsOf(c) \subseteq scores[g]

\* the window of the first comment in time, when it holds enough authors, is reported
C24_FirstFullWindowIsReported ==
    SynchronizedReturned =>
        \A c \in 1..Len(comments_df) :
           /\ \A k \in 1..Len(comments_df) :
                 comments_df[c].published_at <= comments_df[k].published_at
           /\ Cardinality(WindowAuthorsOf(c)) >= 3
           => \E g \in 1..Len(scores) : WindowAuthorsOf(c) \subseteq scores[g]

\* a comment already in an earlier window has a full window of its own whose
\* last author is in no returned group
C24_LaterWindowDropped ==
    /\ SynchronizedReturned
    /\ comments_df = <<[author_id |-> "UC_a", published_at |-> 0],
                       [author_id |-> "UC_b", published_at |-> 200],
                       [author_id |-> "UC_c", published_at |-> 200],
                       [author_id |-> "UC_d", published_at |-> 400]>>
    /\ WindowAuthorsOf(2) = {"UC_b", "UC_c", "UC_d"}
    /\ scores = <<{"UC_a", "UC_b", "UC_c"}>>

-----------------------------------------------------------------------------
(* Properties of the community columns (SpecCommunity) *)

CommunityReturned == called = "calculate_author_network_features"

\* C25: every author of the corpus has a community id other than -1 and a
\* community size of at least 1, also an author with no co-occurrence edge
C25_EveryAuthorHasACommunity ==
    CommunityReturned =>
        \A a \in DOMAIN scores :
           scores[a].community_id # -1 /\ scores[a].community_size >= 1

\* exactly the authors that are nodes of the co-occurrence graph have a
\* community; every other author has community_id -1 and community_size 0
C25_OnlyNodesHaveACommunity ==
    CommunityReturned =>
        \A a \in DOMAIN scores :
           IF a \in build_co_occurrence_network(comments_df, cfg.MIN_EDGE_WEIGHT).nodes
           THEN scores[a].community_id >= 0 /\ scores[a].community_size >= 1
           ELSE scores[a].community_id = -1 /\ scores[a].community_size = 0

\* two authors share a video and an edge, a third commented alone on another
\* video and has no community
C25_IsolatedAuthor ==
    /\ CommunityReturned
    /\ cfg.MIN_EDGE_WEIGHT = 1
    /\ comments_df = <<[author_id |-> "UC_a", video_id |-> "v1"],
                       [author_id |-> "UC_b", video_id |-> "v1"],
                       [author_id |-> "UC_c", video_id |-> "v2"]>>
    /\ scores["UC_a"].community_size >= 1
    /\ scores["UC_c"].community_id = -1
    /\ scores["UC_c"].community_size = 0

-----------------------------------------------------------------------------
(* Properties of the temporal-proximity graph (SpecTemporal) *)

TemporalReturned == called = "build_temporal_network"

Distance(x, y) == IF x >= y THEN x - y ELSE y - x

\* the unordered pairs of comments, one by a and one by b, posted within the window
ClosePairs(a, b) ==
    {pair \in SUBSET (1..Len(comments_df)) :
        /\ Cardinality(pair) = 2
        /\ {comments_df[k].author_id : k \in pair} = {a, b}
        /\ \A k \in pair : \A h \in pair :
              Distance(comments_df[k].published_at, comments_df[h].published_at)
                 <= 3600 * scores.time_window_hours}

\* C26: the graph built by the sorted sweep is the all-pairs graph: the weight
\* of the edge between two distinct authors is the number of unordered pairs of
\* their comments within time_window_hours, the edge is absent when that
\* number is 0, and there is no self-loop
C26_SweepEqualsAllPairs ==
    TemporalReturned =>
        /\ \A a \in NetworkAuthorIds : \A b \in NetworkAuthorIds \ {a} :
              IF ClosePairs(a, b) = {}
              THEN {a, b} \notin DOMAIN scores.G
              ELSE /\ {a, b} \in DOMAIN scores.G
                   /\ scores.G[{a, b}] = Cardinality(ClosePairs(a, b))
        /\ \A e \in DOMAIN scores.G : Cardinality(e) = 2

\* two comments exactly one hour apart are linked, the sweep leaves the loop
\* at a comment beyond the window, and an edge is counted twice
C26_Witness ==
    /\ TemporalReturned
    /\ scores.time_window_hours = 1
    /\ comments_df = <<[author_id |-> "UC_b", published_at |-> 5400],
                       [author_id |-> "UC_a", published_at |-> 0],
                       [author_id |-> "UC_b", published_at |-> 3600],
                       [author_id |-> "UC_a", published_at |-> 3600]>>
    /\ scores.G[{"UC_a", "UC_b"}] = 3

-----------------------------------------------------------------------------
(* Properties of the spam scores (SpecSpam) *)

SpamReturned == called = "detect_spam_patterns"

\* the comment's text as written has a run of five upper-case letters
HasCapsRun(k) == SearchCapsRun(comments_df[k].text)

\* the lower-cased text matches one of the six other indicators
MatchesOtherIndicator(k) ==
    \E p \in (1..7) \ {4} : SearchIndicator(p, str_lower(comments_df[k].text))

OwnSpamComments(a) == {k \in 1..Len(comments_df) : comments_df[k].author_id = a}

\* C27: every indicator can match; a comment with a run of at least five
\* consecutive upper-case letters is counted as spam also when it matches no
\* other indicator, and the score of an author is the fraction of the author's
\* comments that match an indicator
C27_CapsRunIsSpam ==
    SpamReturned =>
        \A a \in DOMAIN scores :
           scores[a] =
              Rat(Cardinality({k \in OwnSpamComments(a) :
                                  HasCapsRun(k) \/ MatchesOtherIndicator(k)}),
                  Cardinality(OwnSpamComments(a)))

\* the score is the fraction of the author's comments whose lower-cased text
\* matches one of the six other indicators; the caps indicator matches no
\* lower-cased text
C27_CapsRunNeverMatches ==
    SpamReturned =>
        /\ \A a \in DOMAIN scores :
              scores[a] =
                 Rat(Cardinality({k \in OwnSpamComments(a) : MatchesOtherIndicator(k)}),
                     Cardinality(OwnSpamComments(a)))
        /\ \A k \in 1..Len(comments_df) : ~SearchIndicator(4, str_lower(comments_df[k].text))

\* an author whose only comment is five different capitals scores 0, next to
\* an author whose comment of a repeated capital scores 1
C27_ShoutingNotCounted ==
    /\ SpamReturned
    /\ comments_df = <<[author_id |-> "UC_a", text |-> <<"A", "B", "C", "D", "E">>],
                       [author_id |-> "UC_b", text |-> <<"A", "A", "A", "A", "A">>]>>
    /\ HasCapsRun(1)
    /\ scores["UC_a"] = <<0, 1>>
    /\ scores["UC_b"] = <<1, 1>>

-----------------------------------------------------------------------------
(* Noise authors under the shipped thresholds (Spec) *)

ClassifiedByDefault == pc = "done" /\ cfg = DefaultConfig

\* C28: under the shipped thresholds 0.5 and 0.7 an author whose cluster_id
\* is -1 has final_bot_probability <= 0.4 and is neither suspicious nor
\* likely_bot, and an author is likely_bot only with a cluster score above 0.5
C28_NoiseNeverFlagged ==
    ClassifiedByDefault =>
        \A i \in Authors :
           /\ results_df[i].cluster_id = -1 =>
                 /\ RLe(results_df[i].final_bot_probability, <<2, 5>>)
                 /\ results_df[i].classification \notin {"suspicious", "likely_bot"}
           /\ results_df[i].classification = "likely_bot" =>
                 RLt(<<1, 2>>, results_df[i].cluster_bot_probability)

\* a noise author with every signal at its maximum reaches exactly 0.4 and is
\* classified likely_human
C28_Witness ==
    /\ ClassifiedByDefault
    /\ \E i \in Authors :
          /\ results_df[i].cluster_id = -1
          /\ results_df[i].individual_bot_probability = <<1, 1>>
          /\ results_df[i].final_bot_probability = <<2, 5>>
          /\ results_df[i].classification = "likely_human"

\* an author of a cluster with a score above 0.5 is classified likely_bot
C28_LikelyBotReached ==
    /\ ClassifiedByDefault
    /\ \E j \in Authors :
          /\ results_df[j].cluster_id # -1
          /\ RLt(<<1, 2>>, results_df[j].cluster_bot_probability)
          /\ results_df[j].classification = "likely_bot"

-----------------------------------------------------------------------------
(* The account age in a run of the pipeline (SpecPipeline) *)

TableCollected == called \in {"collect_data", "extract_all_features", "detect_bots"}

\* C29: in every run of run_full_pipeline the comment table has no column
\* author_channel_created, every author's account_age_score is 0.5, and the
\* young-accounts indicator of every cluster is 0
C29_AccountAgeAlwaysNeutral ==
    /\ TableCollected =>
          \A k \in 1..Len(comments_df) : "author_channel_created" \notin DOMAIN comments_df[k]
    /\ called \in {"extract_all_features", "detect_bots"} =>
          \A a \in DOMAIN features_df.rows :
             features_df.rows[a]["account_age_score"] = <<1, 2>>
    /\ called = "detect_bots" =>
          \A cluster_id \in DOMAIN cluster_bot_scores :
             cluster_bot_scores[cluster_id] = <<RZero>>

\* the channel of a video was created at the moment an author first commented
\* on it: the table carries the date as channel_created_at, the author scores
\* 0.5 and is in a cluster whose young-accounts indicator is 0
C29_Witness ==
    /\ called = "detect_bots"
    /\ \E k \in 1..Len(comments_df) :
          /\ "channel_created_at" \in DOMAIN comments_df[k]
          /\ comments_df[k]["channel_created_at"] = <<0>>
          /\ comments_df[k]["published_at"] = 0
          /\ features_df.rows[comments_df[k]["author_id"]]["account_age_score"] = <<1, 2>>
          /\ cluster_labels[comments_df[k]["author_id"]] = 0
          /\ cluster_bot_scores[0] = <<RZero>>

-----------------------------------------------------------------------------
(* Properties of the request loop (SpecRequest) *)

Returned == r_pc = "returned"

\* what holds in every state of a call
RequestInvariant ==
    /\ api_key_index \in 0..(num_api_keys - 1)
    /\ attempt <= 3
    /\ api_calls_count = calls_at_entry + attempt
    /\ r_pc = "loop" => attempt < 3 /\ status \notin {"ok", "404"}
    /\ Returned =>
          /\ status = "ok" => result = <<"result">>
          /\ status = "404" => result = <<>>
          /\ status \notin {"ok", "404"} => result = <<>> /\ attempt = 3

\* what every iteration does to the key index
RotatesOnQuotaOnly ==
    (attempt' = attempt + 1) =>
        IF status' = "403"
        THEN api_key_index' = (api_key_index + 1) % num_api_keys
        ELSE api_key_index' = api_key_index

\* C30: _make_request ends after at most API_RETRY_COUNT attempts: with the
\* first successful result, with None at once on a 404, with None after the
\* last failed attempt; each 403 moves api_key_index on by one modulo the
\* number of keys, the index stays within 0..len(keys)-1, and api_calls_count
\* grows by exactly the number of attempts
C30_RequestTerminates ==
    /\ []RequestInvariant
    /\ [][RotatesOnQuotaOnly]_vars
    /\ (r_pc = "loop") ~> Returned

\* a second call with two keys: three 403 answers, the index went 0, 1, 0, 1
\* and None is returned after the third attempt
C30_Witness ==
    /\ Returned
    /\ num_api_keys = 2
    /\ calls_at_entry = 2
    /\ status = "403"
    /\ attempt = 3
    /\ api_calls_count = 5
    /\ api_key_index = 1
    /\ result = <<>>

====
